---- MODULE Spec2Model ----
(***************************************************************************)
(* Scrape orchestration engine of OddsHarvester: the bounded-concurrency   *)
(* scheduler (BaseScraper.extract_match_odds), the retry wrapper           *)
(* (retry_scrape), the paginated link collection                           *)
(* (OddsPortalScraper._collect_match_links) and the link parser            *)
(* (BaseScraper.extract_match_links).                                      *)
(*                                                                         *)
(* Coroutines are modelled at the granularity of asyncio: one action per   *)
(* stretch of code between two awaits that suspend on the browser.         *)
(***************************************************************************)
EXTENDS Integers, Sequences, FiniteSets, TLC

(***************************************************************************)
(* Bounds of the model                                                     *)
(***************************************************************************)
MaxLinks == 2
MaxK == 2
MaxListingPages == 3
MaxRows == 2
MaxRuns == 2
MaxOddsLen == 9
MaxMarkets == 3
MaxBookmakers == 2
MaxOddsBlocks == 3
MaxProxies == 3
MaxRotations == 6
MaxMatchLinks == 3
MaxScrollTimeout == 3
MaxScrollAttempts == 2
MaxHeight == 2

(***************************************************************************)
(* Program constants                                                       *)
(***************************************************************************)
MAX_RETRIES == 3
SCRAPE_CONCURRENCY_TASKS == 2

VARIABLES
    attempt,                  \* retry_scrape: loop variable `attempt` (0 before the loop)
    retryPc,                  \* retry_scrape: position
    retryOutcome,             \* retry_scrape: how it ended (value returned or error raised)
    invocations,              \* number of times scrape_func has been invoked
    sleeps,                   \* number of asyncio.sleep(RETRY_DELAY_SECONDS) waits
    attemptErrors,            \* per attempt: the error the flow raised (NoExc if none)
    caught,                   \* current attempt: where a transient error was raised and handled
    command,                  \* the flow retry_scrape wraps and its arguments
    flowPc,                   \* position inside the flow of the current attempt
    flowExc,                  \* the error the flow of the current attempt ended with
    site,                     \* the remote site: pagination controls and page contents
    pages_to_scrape,          \* _collect_match_links: the page list
    pageIdx,                  \* _collect_match_links: position of the loop in pages_to_scrape
    tab,                      \* _collect_match_links: local variable `tab`
    all_links,                \* _collect_match_links: local list all_links
    pageLog,                  \* per page processed: failed?, tab opened, tab closed in cleanup
    match_links,              \* the list of links collected / handed to extract_match_odds
    content,                  \* page content on which extract_match_links is run
    linkRuns,                 \* results of the runs of extract_match_links on `content`
    concurrent_scraping_task, \* extract_match_odds: semaphore size of the current call
    wk,                       \* per attempt: the scrape_with_semaphore tasks
    sem,                      \* per attempt: value of the asyncio.Semaphore
    failed_links,             \* per attempt: the list failed_links
    emo,                      \* extract_match_odds of the current attempt: position
    gatherExc,                \* first exception a task of the current gather ended with
    odds_data,                \* value returned by extract_match_odds
    openTabs,                 \* tabs handed out by new_page() and not yet given to close()
    event_data,               \* event header: page URL, tournamentName, seasonType, tournamentStage
    game_type,                \* value returned by _determine_game_type (NoGameType before the call)
    odds_text,                \* text of an odds cell of a bookmaker block
    odds_passes,              \* results of the successive normalisations of odds_text
    registry,                 \* SportMarketRegistry._registry
    smPc,                     \* scrape_markets: position
    sport,                    \* scrape_markets: argument sport
    markets,                  \* scrape_markets: argument markets
    marketIdx,                \* scrape_markets: position of the loop in markets
    market_data,              \* scrape_markets: the dict market_data
    runPc,                    \* run_scraper: position
    run_args,                 \* run_scraper: command and which arguments are given
    browser,                  \* PlaywrightManager: what initialize() has started
    launches,                 \* number of browsers launched by PlaywrightManager.initialize
    run_result,               \* run_scraper: how it ended (value returned or error raised)
    playwright_stops,         \* number of calls of scraper.stop_playwright()
    emPc,                     \* extract_market_odds: position
    em_args,                  \* extract_market_odds: its arguments
    page_rows,                \* the bookmaker rows of the market on the page
    sub_market_open,          \* the page: the sub-market of specific_market is expanded
    market_odds,              \* extract_market_odds: local list odds_data
    histIdx,                  \* extract_market_odds: position of the history loop in odds_data
    em_error,                 \* extract_market_odds: the step whose error reached the except clause
    em_result,                \* extract_market_odds: the value returned
    bookmaker_blocks,         \* _parse_market_odds: the bookmaker blocks of the html
    parse_args,               \* _parse_market_odds: odds_labels, target_bookmaker, period
    generic_odds,             \* _parse_market_odds: the list returned by the generic path
    proxies,                  \* ProxyManager.proxies
    current_proxy_index,      \* ProxyManager.current_proxy_index
    rotations,                \* number of calls of rotate_proxy made
    current_proxy,            \* value of the last call of get_current_proxy
    scrollPc,                 \* scroll_until_loaded: position
    scroll_args,              \* scroll_until_loaded: timeout, max_scroll_attempts, selector given
    clock,                    \* time.time(), in units of scroll_pause_time, from the call on
    end_time,                 \* scroll_until_loaded: local end_time
    last_height,              \* scroll_until_loaded: local last_height
    scroll_attempts,          \* scroll_until_loaded: local scroll_attempts
    heights,                  \* the page: the scrollHeight values read so far, in order
    scroll_result             \* scroll_until_loaded: the value returned

vars == <<attempt, retryPc, retryOutcome, invocations, sleeps, attemptErrors, caught, command,
          flowPc, flowExc, site, pages_to_scrape, pageIdx, tab, all_links, pageLog,
          match_links, content, linkRuns, concurrent_scraping_task, wk, sem, failed_links,
          emo, gatherExc, odds_data, openTabs, event_data, game_type,
          odds_text, odds_passes, registry, smPc, sport, markets, marketIdx, market_data,
          runPc, run_args, browser, launches, run_result, playwright_stops,
          emPc, em_args, page_rows, sub_market_open, market_odds, histIdx, em_error, em_result,
          bookmaker_blocks, parse_args, generic_odds,
          proxies, current_proxy_index, rotations, current_proxy,
          scrollPc, scroll_args, clock, end_time, last_height, scroll_attempts, heights,
          scroll_result>>

retryVars == <<attempt, retryPc, retryOutcome, invocations, sleeps, attemptErrors, command>>
flowVars == <<flowPc, flowExc, site>>
collectVars == <<pages_to_scrape, pageIdx, tab, all_links, pageLog>>
parserVars == <<content, linkRuns>>
schedVars == <<concurrent_scraping_task, wk, sem, failed_links, emo, gatherExc, odds_data>>
tabVars == <<openTabs>>
headerVars == <<event_data, game_type>>
oddsVars == <<odds_text, odds_passes>>
marketVars == <<registry, smPc, sport, markets, marketIdx, market_data>>
runVars == <<runPc, run_args, browser, launches, run_result, playwright_stops>>
extractVars == <<emPc, em_args, page_rows, sub_market_open, market_odds, histIdx, em_error,
                 em_result>>

\* the variables of the scheduler, of the retry wrapper, of the flows and of the
\* link collection
coreVars == <<retryVars, caught, flowVars, collectVars, match_links, parserVars, schedVars,
              tabVars>>
\* the variables of the record assembly, of the market registry and extractor and
\* of run_scraper
genericVars == <<bookmaker_blocks, parse_args, generic_odds>>
proxyVars == <<proxies, current_proxy_index, rotations, current_proxy>>
scrollVars == <<scrollPc, scroll_args, clock, end_time, last_height, scroll_attempts,
                heights, scroll_result>>
laterVars == <<genericVars, proxyVars, scrollVars>>
otherVars == <<headerVars, oddsVars, marketVars, runVars, extractVars, laterVars>>

(***************************************************************************)
(* Values                                                                  *)
(***************************************************************************)
Attempts == 1..MAX_RETRIES

\* Python None, as a tab and as a task result
NoTab == <<"None", 0, 0>>
None == [kind |-> "None"]
NoExc == [kind |-> "none"]

\* playwright_manager.page, the page opened by PlaywrightManager.initialize
MainPage == <<"main", 0, 0>>

\* The object returned by the call of context.new_page() that task i of
\* attempt a makes: every call returns a new Page.
NewWorkerTab(a, i) == <<"worker", a, i>>

\* Error messages are sequences of words; str(e) is the message.
MsgTimeout == <<"Page.goto:", "Timeout", "5000ms", "exceeded.">>
MsgTargetClosed == <<"Page.close:", "Target", "closed">>
MsgLowerTimeout == <<"navigation", "timeout">>
MsgAttribute == <<"'NoneType'", "object", "has", "no", "attribute", "'lower'">>

\* playwright.async_api.Error (TimeoutError is a subclass) and other Exceptions
PwTimeout == [kind |-> "exc", cls |-> "playwright.Error", msg |-> MsgTimeout]
PwTargetClosed == [kind |-> "exc", cls |-> "playwright.Error", msg |-> MsgTargetClosed]
PwOther == [kind |-> "exc", cls |-> "playwright.Error", msg |-> MsgLowerTimeout]
OtherExc == [kind |-> "exc", cls |-> "Exception", msg |-> MsgAttribute]

PlaywrightErrors == {PwTimeout, PwOther}
Exceptions == {PwTimeout, PwOther, OtherExc}

\* the errors of Page.close()
CloseErrors == {PwTargetClosed, OtherExc}

Links == {"m1", "m2"}

Range(s) == {s[i] : i \in 1..Len(s)}

SeqsUpTo(S, n) == UNION {[1..k -> S] : k \in 0..n}

(***************************************************************************)
(* retry_scrape: classification of errors                                  *)
(***************************************************************************)
TRANSIENT_ERRORS ==
    { <<"ERR_CONNECTION_RESET">>, <<"ERR_CONNECTION_TIMED_OUT">>, <<"ERR_NAME_NOT_RESOLVED">>,
      <<"ERR_PROXY_CONNECTION_FAILED">>, <<"ERR_SOCKS_CONNECTION_FAILED">>,
      <<"ERR_CERT_AUTHORITY_INVALID">>, <<"ERR_TUNNEL_CONNECTION_FAILED">>,
      <<"ERR_NETWORK_CHANGED">>, <<"Timeout">>, <<"net::ERR_FAILED">>,
      <<"net::ERR_CONNECTION_ABORTED">>, <<"net::ERR_INTERNET_DISCONNECTED">>,
      <<"Navigation", "timeout">>, <<"TimeoutError">>, <<"Target", "closed">> }

\* keyword in str(e)
Contains(msg, keyword) ==
    \E i \in 1..(Len(msg) - Len(keyword) + 1) :
        SubSeq(msg, i, i + Len(keyword) - 1) = keyword

\* every error is taken for a transient one
IsTransientAlways(e) == TRUE

\* no error is taken for a transient one
IsTransientNever(e) == FALSE

\* any(keyword in str(e) for keyword in TRANSIENT_ERRORS)
IsTransient(e) == \E keyword \in TRANSIENT_ERRORS : Contains(e.msg, keyword)

(***************************************************************************)
(* BaseScraper._scrape_match_data                                          *)
(***************************************************************************)
MatchRecord(link) == [kind |-> "record", match_link |-> link]

\* What happens on the match page: the details are read and the markets scraped
\* ("ok"), the event header yields no details ("no_details"), or some call raises.
ScrapeOutcomes ==
    {[o |-> "ok", e |-> NoExc], [o |-> "no_details", e |-> NoExc]}
        \cup {[o |-> "raise", e |-> x] : x \in Exceptions}

\* `except Error` catches the Playwright errors only and returns None for them.
ScrapeMatchData(link, outcome) ==
    CASE outcome.o = "ok" -> [kind |-> "return", value |-> MatchRecord(link)]
      [] outcome.o = "no_details" -> [kind |-> "return", value |-> None]
      [] outcome.o = "raise" ->
            IF outcome.e.cls = "playwright.Error"
            THEN [kind |-> "return", value |-> None]
            ELSE [kind |-> "raise", exc |-> outcome.e]

(***************************************************************************)
(* BaseScraper.extract_match_odds: the tasks scrape_with_semaphore(link)   *)
(***************************************************************************)
\* closes: the number of close() calls the task has made on its tab; threw: a call
\* made by the task has raised; raised: the exception the task ended with
NewTask(link) ==
    [pc |-> "start", link |-> link, tab |-> NoTab, closes |-> 0, threw |-> FALSE,
     ret |-> None, raised |-> NoExc]

Tasks(a) == 1..Len(wk[a])

\* asyncio.Semaphore(concurrent_scraping_task)
SemaphoreInit(k) == k

SemaphoreAlwaysFree(v) == TRUE

\* Semaphore.acquire() goes through only while the value is positive
SemaphoreFree(v) == v > 0

\* The call extract_match_odds of attempt a is running: it awaits gather.
Live(a) == a = attempt /\ emo = "gathering"

\* A task of a call of extract_match_odds that is over goes on running, but nothing
\* can read its result, its link or the failed_links list of that call any more:
\* they are garbage.  What is left of the task is where it is and the tab it holds.
Orphan(task) ==
    [pc |-> task.pc, link |-> "", tab |-> IF task.pc = "done" THEN NoTab ELSE task.tab,
     closes |-> 0, threw |-> FALSE, ret |-> None, raised |-> NoExc]

Leftover(tasks) == [i \in 1..Len(tasks) |-> Orphan(tasks[i])]

\* the task record after a step of the task
Stepped(a, task) == IF Live(a) THEN task ELSE Orphan(task)

\* failed_links.append(link)
RecordFailed(a, link) ==
    failed_links' = IF Live(a) THEN [failed_links EXCEPT ![a] = Append(@, link)]
                    ELSE failed_links

\* The handled error is remembered when retry_scrape would call it transient.
NoteCaught(live, e, where) ==
    caught' = IF live /\ IsTransient(e) THEN caught \cup {where} ELSE caught

\* `async with semaphore:` entered
Acquire(a, i) ==
    /\ wk[a][i].pc = "start"
    /\ SemaphoreFree(sem[a])
    /\ sem' = [sem EXCEPT ![a] = @ - 1]
    /\ wk' = [wk EXCEPT ![a][i].pc = "new_page"]
    /\ UNCHANGED <<retryVars, caught, flowVars, collectVars, match_links, parserVars, otherVars,
                   concurrent_scraping_task, failed_links, emo, gatherExc, odds_data, tabVars>>

\* tab = await context.new_page().  When it raises, the handler records the link,
\* `finally` finds tab = None, the semaphore is released and the task returns None.
OpenTab(a, i) ==
    /\ wk[a][i].pc = "new_page"
    /\ \/ /\ wk' = [wk EXCEPT ![a][i] =
                        Stepped(a, [@ EXCEPT !.pc = "scrape", !.tab = NewWorkerTab(a, i)])]
          /\ openTabs' = openTabs \cup {NewWorkerTab(a, i)}
          /\ UNCHANGED <<sem, failed_links, caught>>
       \/ /\ \E e \in Exceptions : NoteCaught(Live(a), e, "new_page")
          /\ RecordFailed(a, wk[a][i].link)
          /\ wk' = [wk EXCEPT ![a][i] =
                        Stepped(a, [@ EXCEPT !.pc = "done", !.threw = TRUE, !.ret = None])]
          /\ sem' = [sem EXCEPT ![a] = @ + 1]
          /\ UNCHANGED openTabs
    /\ UNCHANGED <<retryVars, flowVars, collectVars, match_links, parserVars, otherVars,
                   concurrent_scraping_task, emo, gatherExc, odds_data>>

\* data = await self._scrape_match_data(...); return data, or the except handler
ScrapeMatch(a, i) ==
    /\ wk[a][i].pc = "scrape"
    /\ \E outcome \in ScrapeOutcomes :
         LET r == ScrapeMatchData(wk[a][i].link, outcome) IN
           /\ IF r.kind = "return"
              THEN /\ wk' = [wk EXCEPT ![a][i] =
                                Stepped(a, [@ EXCEPT !.pc = "close", !.ret = r.value,
                                                     !.threw = (outcome.o = "raise")])]
                   /\ UNCHANGED failed_links
              ELSE /\ RecordFailed(a, wk[a][i].link)
                   /\ wk' = [wk EXCEPT ![a][i] =
                                Stepped(a, [@ EXCEPT !.pc = "close", !.ret = None,
                                                     !.threw = TRUE])]
           /\ IF outcome.o = "raise" THEN NoteCaught(Live(a), outcome.e, "scrape")
              ELSE UNCHANGED caught
    /\ UNCHANGED <<retryVars, flowVars, collectVars, match_links, parserVars, otherVars,
                   concurrent_scraping_task, sem, emo, gatherExc, odds_data, tabVars>>

\* tab.close() written at the end of the try block instead of in `finally`:
\* a task whose scrape raised leaves without closing its tab
CloseTabOnSuccessOnly(a, i) ==
    /\ wk[a][i].pc = "close"
    /\ wk[a][i].tab # NoTab
    /\ sem' = [sem EXCEPT ![a] = @ + 1]
    /\ IF wk[a][i].link \in Range(failed_links[a])
       THEN /\ wk' = [wk EXCEPT ![a][i] = Stepped(a, [@ EXCEPT !.pc = "done"])]
            /\ UNCHANGED openTabs
       ELSE /\ wk' = [wk EXCEPT ![a][i] =
                        Stepped(a, [@ EXCEPT !.pc = "done", !.closes = @ + 1])]
            /\ openTabs' = openTabs \ {wk[a][i].tab}
    /\ UNCHANGED <<retryVars, caught, flowVars, collectVars, match_links, parserVars, otherVars,
                   concurrent_scraping_task, failed_links, emo, gatherExc, odds_data>>

\* finally: if tab: await tab.close(); then the semaphore is released.  An error
\* raised by close() replaces the task's return value; asyncio.gather takes the
\* first exception of its tasks.
CloseTab(a, i) ==
    /\ wk[a][i].pc = "close"
    /\ wk[a][i].tab # NoTab
    /\ openTabs' = openTabs \ {wk[a][i].tab}
    /\ sem' = [sem EXCEPT ![a] = @ + 1]
    /\ \/ /\ wk' = [wk EXCEPT ![a][i] =
                        Stepped(a, [@ EXCEPT !.pc = "done", !.closes = @ + 1])]
          /\ UNCHANGED gatherExc
       \/ \E e \in CloseErrors :
            /\ wk' = [wk EXCEPT ![a][i] =
                        Stepped(a, [@ EXCEPT !.pc = "done", !.closes = @ + 1, !.threw = TRUE,
                                             !.ret = None, !.raised = e])]
            /\ gatherExc' = IF Live(a) /\ gatherExc = NoExc THEN e ELSE gatherExc
    /\ UNCHANGED <<retryVars, caught, flowVars, collectVars, match_links, parserVars, otherVars,
                   concurrent_scraping_task, failed_links, emo, odds_data>>

\* [result for result in results if result is not None]
RECURSIVE NotNone(_)
NotNone(results) ==
    IF results = <<>> THEN <<>>
    ELSE IF Head(results) = None THEN NotNone(Tail(results))
         ELSE <<Head(results)>> \o NotNone(Tail(results))

\* results = await asyncio.gather(*tasks) with every task finished: return odds_data
GatherReturn ==
    /\ emo = "gathering"
    /\ gatherExc = NoExc
    /\ \A i \in Tasks(attempt) : wk[attempt][i].pc = "done"
    /\ odds_data' = NotNone([i \in Tasks(attempt) |-> wk[attempt][i].ret])
    /\ emo' = "returned"
    /\ UNCHANGED <<retryVars, caught, flowVars, collectVars, match_links, parserVars, otherVars,
                   concurrent_scraping_task, wk, sem, failed_links, gatherExc, tabVars>>

\* asyncio.gather re-raises the first exception of a task in extract_match_odds,
\* which has no handler: the call ends while the other tasks go on.
GatherRaise ==
    /\ emo = "gathering"
    /\ gatherExc # NoExc
    /\ emo' = "raised"
    /\ wk' = [wk EXCEPT ![attempt] = Leftover(@)]
    /\ failed_links' = [failed_links EXCEPT ![attempt] = <<>>]
    /\ UNCHANGED <<retryVars, caught, flowVars, collectVars, match_links, parserVars, otherVars,
                   concurrent_scraping_task, sem, gatherExc, odds_data, tabVars>>

TaskStep ==
    \E a \in Attempts : \E i \in Tasks(a) :
        Acquire(a, i) \/ OpenTab(a, i) \/ ScrapeMatch(a, i) \/ CloseTab(a, i)

(***************************************************************************)
(* BaseScraper.extract_match_links                                         *)
(***************************************************************************)
ODDSPORTAL_BASE_URL == <<"https://www.oddsportal.com">>

\* An href is a string, kept as the sequence of its "/" and of the text between them.
HrefMatch1 == <<"/", "football", "/", "england", "/", "premier-league", "/", "arsenal-chelsea-x1", "/">>
HrefMatch1Bare == <<"/", "football", "/", "england", "/", "premier-league", "/", "arsenal-chelsea-x1">>
HrefMatch2 == <<"/", "football", "/", "england", "/", "premier-league", "/", "leeds-everton-x2", "/">>
HrefLeague == <<"/", "football", "/", "england", "/", "premier-league", "/">>
HrefEmptySegment == <<"/", "football", "/", "/", "england", "/", "results", "/">>
NoHref == <<>>

\* Elements of a listing page: the names in the class attribute (a name is kept
\* as the sequence of its parts) and the hrefs of the anchors inside the element.
RowLeagueAndMatch == [class |-> << <<"eventRow">> >>, anchors |-> <<HrefLeague, HrefMatch1>>]
RowSameMatchTwice == [class |-> << <<"flex">>, <<"eventRow">> >>, anchors |-> <<HrefMatch1, HrefMatch1>>]
RowBareAndNoHref == [class |-> << <<"eventRow">> >>, anchors |-> <<HrefMatch1Bare, NoHref>>]
RowOtherMatch == [class |-> << <<"eventRow", "-live">> >>, anchors |-> <<HrefMatch2, HrefMatch1>>]
RowNotAnEvent == [class |-> << <<"flex">>, <<"my", "eventRow">> >>, anchors |-> <<HrefMatch2>>]
RowEmptySegment == [class |-> << <<"eventRow">> >>, anchors |-> <<HrefEmptySegment>>]

RowInputs == {RowLeagueAndMatch, RowSameMatchTwice, RowBareAndNoHref, RowOtherMatch,
              RowNotAnEvent, RowEmptySegment}

\* href.strip('/')
RECURSIVE LStrip(_)
LStrip(h) == IF h # <<>> /\ Head(h) = "/" THEN LStrip(Tail(h)) ELSE h

RECURSIVE RStrip(_)
RStrip(h) == IF h # <<>> /\ h[Len(h)] = "/" THEN RStrip(SubSeq(h, 1, Len(h) - 1)) ELSE h

Strip(h) == RStrip(LStrip(h))

\* len(s.split('/')): one more than the number of separators in s
SplitLen(h) == Cardinality({i \in 1..Len(h) : h[i] = "/"}) + 1

\* class_=re.compile("^eventRow"): some class name of the element starts with eventRow
IsEventRow(row) == \E c \in Range(row.class) : Len(c) >= 1 /\ c[1] = "eventRow"

\* row.find_all('a', href=True) and the condition of the comprehension
IsMatchHref(h) == h # NoHref /\ SplitLen(Strip(h)) > 3

\* the set comprehension match_links of lines 261-266
MatchLinkSet(html) ==
    UNION { { ODDSPORTAL_BASE_URL \o html[r].anchors[k] :
                k \in {j \in 1..Len(html[r].anchors) : IsMatchHref(html[r].anchors[j])} } :
            r \in {q \in 1..Len(html) : IsEventRow(html[q])} }

\* list(a_set): the elements of the set, each once, in an order the caller cannot choose
ListOfSet(S) == { l \in [1..Cardinality(S) -> S] : Range(l) = S }

\* a list comprehension instead of the set comprehension: every qualifying anchor
\* of every event row, in document order
RECURSIVE MatchLinkList(_)
MatchLinkList(html) ==
    IF html = <<>> THEN <<>>
    ELSE LET row == Head(html)
             found == IF IsEventRow(row) THEN SelectSeq(row.anchors, IsMatchHref) ELSE <<>>
         IN  [k \in 1..Len(found) |-> ODDSPORTAL_BASE_URL \o found[k]]
                \o MatchLinkList(Tail(html))

ExtractMatchLinksWithoutSet(html, outcome) ==
    IF outcome = "raise" THEN {<<>>} ELSE {MatchLinkList(html)}

\* extract_match_links(page): page.content() gives html or raises (outcome "raise");
\* every exception is caught and gives [].
ExtractMatchLinks(html, outcome) ==
    IF outcome = "raise" THEN {<<>>} ELSE ListOfSet(MatchLinkSet(html))

ContentOutcomes == {"ok", "raise"}

\* one run of extract_match_links on the page content
RunExtractMatchLinks ==
    /\ Len(linkRuns) < MaxRuns
    /\ \E outcome \in ContentOutcomes : \E l \in ExtractMatchLinks(content, outcome) :
         linkRuns' = Append(linkRuns, [read |-> outcome, links |-> l])
    /\ UNCHANGED <<retryVars, caught, flowVars, collectVars, match_links, content,
                   schedVars, tabVars, otherVars>>

(***************************************************************************)
(* OddsPortalScraper._get_pagination_info                                  *)
(***************************************************************************)
\* The text of a pagination link: the number it shows, or NotDigits
NotDigits == -1

\* max_pages = None (`if max_pages` treats 0 alike)
NoMaxPages == 0

IntLeq(x, y) == x <= y

Take(s, n) == SubSeq(s, 1, IF n < Len(s) THEN n ELSE Len(s))

\* the cap applied to the links in page order
GetPaginationInfoUnsorted(texts, max_pages) ==
    LET isdigit(t) == t # NotDigits
        total_pages == SelectSeq(texts, isdigit)
    IN  IF total_pages = <<>> THEN <<1>>
        ELSE IF max_pages # NoMaxPages THEN Take(total_pages, max_pages) ELSE total_pages

GetPaginationInfo(texts, max_pages) ==
    LET isdigit(t) == t # NotDigits
        total_pages == SelectSeq(texts, isdigit)
    IN  IF total_pages = <<>> THEN <<1>>
        ELSE IF max_pages # NoMaxPages THEN Take(SortSeq(total_pages, IntLeq), max_pages)
             ELSE total_pages

\* one call of _get_pagination_info on the page of the site
CallGetPaginationInfo ==
    /\ pages_to_scrape = <<>>
    /\ pages_to_scrape' = GetPaginationInfo(site.pagination, command.max_pages)
    /\ UNCHANGED <<retryVars, caught, flowVars, pageIdx, tab, all_links, pageLog, match_links,
                   parserVars, schedVars, tabVars, otherVars>>

(***************************************************************************)
(* OddsPortalScraper._collect_match_links                                  *)
(***************************************************************************)
\* The object returned by the call of context.new_page() made for the idx-th
\* entry of pages_to_scrape in attempt a.
NewListingTab(a, idx) == <<"listing", a, idx>>

\* what base_url#/page/{n} shows
PageContent(n) == IF n \in 1..Len(site.listing) THEN site.listing[n] ELSE <<>>

NewPageLog(opened, failed) ==
    [failed |-> failed, opened |-> opened, closed |-> NoTab, close_raised |-> FALSE]

\* the for statement takes the next page number, or the loop is over
NextPage(idx) == IF idx < Len(pages_to_scrape) THEN "c_new_page" ELSE "c_unique"

\* except Exception as e: the error of the page is logged
PageFailed(e) ==
    /\ pageLog' = [pageLog EXCEPT ![pageIdx].failed = TRUE]
    /\ NoteCaught(TRUE, e, "listing")

\* the test of the finally clause: 'tab' in locals() and tab
TabToClose(t) == t # NoTab

\* tab = await self.playwright_manager.context.new_page()
CollectOpenTab ==
    /\ flowPc = "c_new_page"
    /\ \/ /\ tab' = NewListingTab(attempt, pageIdx + 1)
          /\ openTabs' = openTabs \cup {NewListingTab(attempt, pageIdx + 1)}
          /\ pageLog' = Append(pageLog, NewPageLog(NewListingTab(attempt, pageIdx + 1), FALSE))
          /\ flowPc' = "c_goto"
          /\ UNCHANGED caught
       \/ /\ \E e \in Exceptions : NoteCaught(TRUE, e, "listing")
          /\ pageLog' = Append(pageLog, NewPageLog(NoTab, TRUE))
          /\ flowPc' = IF TabToClose(tab) THEN "c_close" ELSE NextPage(pageIdx + 1)
          /\ UNCHANGED <<tab, openTabs>>
    /\ pageIdx' = pageIdx + 1
    /\ UNCHANGED <<retryVars, flowExc, site, pages_to_scrape, all_links, match_links,
                   parserVars, otherVars, schedVars>>

\* await tab.goto(page_url, timeout=10000, wait_until="domcontentloaded")
CollectGoto ==
    /\ flowPc = "c_goto"
    /\ \/ /\ flowPc' = "c_jitter"
          /\ UNCHANGED <<pageLog, caught>>
       \/ /\ \E e \in PlaywrightErrors : PageFailed(e)
          /\ flowPc' = "c_close"
    /\ UNCHANGED <<retryVars, flowExc, site, pages_to_scrape, pageIdx, tab, all_links,
                   match_links, parserVars, otherVars, schedVars, tabVars>>

\* await tab.wait_for_timeout(random.randint(2000, 4000))
CollectJitter ==
    /\ flowPc = "c_jitter"
    /\ \/ /\ flowPc' = "c_extract"
          /\ UNCHANGED <<pageLog, caught>>
       \/ /\ \E e \in PlaywrightErrors : PageFailed(e)
          /\ flowPc' = "c_close"
    /\ UNCHANGED <<retryVars, flowExc, site, pages_to_scrape, pageIdx, tab, all_links,
                   match_links, parserVars, otherVars, schedVars, tabVars>>

\* all_links = links
ExtendOverwrites(list, links) == links

\* all_links.extend(links)
Extend(list, links) == list \o links

\* links = await self.extract_match_links(page=tab); all_links.extend(links)
CollectExtract ==
    /\ flowPc = "c_extract"
    /\ \E outcome \in ContentOutcomes :
         /\ \E links \in ExtractMatchLinks(PageContent(pages_to_scrape[pageIdx]), outcome) :
                all_links' = Extend(all_links, links)
         /\ pageLog' = [pageLog EXCEPT ![pageIdx].failed = (outcome = "raise")]
    /\ flowPc' = "c_close"
    /\ UNCHANGED <<retryVars, caught, flowExc, site, pages_to_scrape, pageIdx, tab,
                   match_links, parserVars, otherVars, schedVars, tabVars>>

\* finally: await tab.close().  An error of close() leaves the function.
CollectClose ==
    /\ flowPc = "c_close"
    /\ openTabs' = openTabs \ {tab}
    /\ \/ /\ pageLog' = [pageLog EXCEPT ![pageIdx].closed = tab]
          /\ flowPc' = NextPage(pageIdx)
          /\ UNCHANGED flowExc
       \/ \E e \in CloseErrors :
            /\ pageLog' = [pageLog EXCEPT ![pageIdx].closed = tab,
                                          ![pageIdx].close_raised = TRUE]
            /\ flowPc' = "raised"
            /\ flowExc' = e
    /\ UNCHANGED <<retryVars, caught, site, pages_to_scrape, pageIdx, tab, all_links,
                   match_links, parserVars, otherVars, schedVars>>

\* unique_links = list(set(all_links)); return unique_links
CollectUnique ==
    /\ flowPc = "c_unique"
    /\ match_links' \in ListOfSet(Range(all_links))
    /\ flowPc' = "collected"
    /\ UNCHANGED <<retryVars, caught, flowExc, site, collectVars, parserVars, otherVars, schedVars,
                   tabVars>>

CollectStep ==
    \/ CollectOpenTab \/ CollectGoto \/ CollectJitter \/ CollectExtract
    \/ CollectClose \/ CollectUnique

(***************************************************************************)
(* extract_match_odds: entry                                               *)
(***************************************************************************)
\* lines 298-300 and the creation of the tasks (line 329)
StartExtract(a, links, k) ==
    /\ concurrent_scraping_task' = k
    /\ sem' = [sem EXCEPT ![a] = SemaphoreInit(k)]
    /\ failed_links' = [failed_links EXCEPT ![a] = <<>>]
    /\ wk' = [wk EXCEPT ![a] = [i \in 1..Len(links) |-> NewTask(links[i])]]
    /\ emo' = "gathering"
    /\ gatherExc' = NoExc
    /\ odds_data' = <<>>

(***************************************************************************)
(* The flows scrape_historic and scrape_upcoming                           *)
(***************************************************************************)
ValueError == [kind |-> "exc", cls |-> "Exception", msg |-> <<"Invalid", "league">>]

\* URLBuilder.get_historic_matches_url / get_upcoming_matches_url (get_league_url
\* raises ValueError for a league that is not in the mapping of the sport)
FlowBuildUrl ==
    /\ flowPc = "url"
    /\ IF command.league_valid
       THEN flowPc' = "goto" /\ UNCHANGED flowExc
       ELSE flowPc' = "raised" /\ flowExc' = ValueError
    /\ UNCHANGED <<retryVars, caught, site, collectVars, match_links, parserVars, otherVars,
                   schedVars, tabVars>>

\* await current_page.goto(...); await self._prepare_page_for_scraping(...), which
\* handles every error itself
FlowGoto ==
    /\ flowPc = "goto"
    /\ \/ /\ flowPc' = IF command.cmd = "historic" THEN "pagination" ELSE "u_links"
          /\ UNCHANGED flowExc
       \/ \E e \in PlaywrightErrors :
            /\ flowPc' = "raised"
            /\ flowExc' = e
    /\ UNCHANGED <<retryVars, caught, site, collectVars, match_links, parserVars, otherVars,
                   schedVars, tabVars>>

\* pages_to_scrape = await self._get_pagination_info(...), then the entry of
\* _collect_match_links (all_links = [])
FlowPagination ==
    /\ flowPc = "pagination"
    /\ \/ /\ pages_to_scrape' = GetPaginationInfo(site.pagination, command.max_pages)
          /\ pageIdx' = 0
          /\ all_links' = <<>>
          /\ pageLog' = <<>>
          /\ tab' = NoTab
          /\ flowPc' = IF pages_to_scrape' = <<>> THEN "c_unique" ELSE "c_new_page"
          /\ UNCHANGED flowExc
       \/ \E e \in PlaywrightErrors :
            /\ flowPc' = "raised"
            /\ flowExc' = e
            /\ UNCHANGED collectVars
    /\ UNCHANGED <<retryVars, caught, site, match_links, parserVars, otherVars, schedVars, tabVars>>

\* scrape_historic: return await self.extract_match_odds(match_links=all_links, ...);
\* _collect_match_links has returned and its locals are gone
FlowExtractHistoric ==
    /\ flowPc = "collected"
    /\ StartExtract(attempt, match_links, SCRAPE_CONCURRENCY_TASKS)
    /\ flowPc' = "extract"
    /\ pages_to_scrape' = <<>> /\ pageIdx' = 0 /\ tab' = NoTab /\ all_links' = <<>>
    /\ pageLog' = <<>>
    /\ UNCHANGED <<retryVars, caught, flowExc, site, match_links, parserVars, otherVars, tabVars>>

\* scrape_upcoming: match_links = await self.extract_match_links(page=current_page);
\* no link: return []; else extract_match_odds
FlowUpcomingLinks ==
    /\ flowPc = "u_links"
    /\ \E outcome \in ContentOutcomes : \E links \in ExtractMatchLinks(site.upcoming, outcome) :
         /\ match_links' = links
         /\ IF links = <<>>
            THEN /\ flowPc' = "returned"
                 /\ odds_data' = <<>>
                 /\ UNCHANGED <<concurrent_scraping_task, wk, sem, failed_links, emo, gatherExc>>
            ELSE /\ flowPc' = "extract"
                 /\ StartExtract(attempt, links, SCRAPE_CONCURRENCY_TASKS)
    /\ UNCHANGED <<retryVars, caught, flowExc, site, collectVars, parserVars, otherVars, tabVars>>

FlowStep ==
    \/ FlowBuildUrl \/ FlowGoto \/ FlowPagination \/ FlowExtractHistoric \/ FlowUpcomingLinks

(***************************************************************************)
(* The flow scrape_matches (explicit match links)                          *)
(***************************************************************************)
\* await current_page.goto(ODDSPORTAL_BASE_URL, ...); await
\* self._prepare_page_for_scraping(page=current_page)
FlowMatchesGoto ==
    /\ flowPc = "m_goto"
    /\ \/ /\ flowPc' = "m_extract"
          /\ UNCHANGED flowExc
       \/ \E e \in PlaywrightErrors :
            /\ flowPc' = "raised"
            /\ flowExc' = e
    /\ UNCHANGED <<retryVars, caught, site, collectVars, match_links, parserVars, otherVars,
                   schedVars, tabVars>>

\* return await self.extract_match_odds(sport=sport, match_links=match_links, ...,
\* concurrent_scraping_task=len(match_links)): the links are passed as they were given
FlowExtractMatches ==
    /\ flowPc = "m_extract"
    /\ StartExtract(attempt, match_links, Len(match_links))
    /\ flowPc' = "extract"
    /\ UNCHANGED <<retryVars, caught, flowExc, site, collectVars, match_links, parserVars,
                   otherVars, tabVars>>

MatchesStep == FlowMatchesGoto \/ FlowExtractMatches

(***************************************************************************)
(* retry_scrape                                                            *)
(***************************************************************************)
\* range(1, MAX_RETRIES)
RetryRangeShort == 1..(MAX_RETRIES - 1)

\* range(1, MAX_RETRIES + 1)
RetryRange == 1..MAX_RETRIES

\* how retry_scrape ended: it returned the value of scrape_func, it returned None
\* after the loop, or it raised
Returned(v) == [kind |-> "return", value |-> v]
ReturnedNone == [kind |-> "return_none"]
Raised(e) == [kind |-> "raise", exc |-> e]

\* for attempt in range(...): return await scrape_func(*args, **kwargs).  The call
\* starts with new locals; those of the call before are gone.
RetryCall ==
    /\ retryPc = "loop"
    /\ attempt + 1 \in RetryRange
    /\ attempt' = attempt + 1
    /\ invocations' = invocations + 1
    /\ retryPc' = "call"
    /\ flowPc' = "url"
    /\ flowExc' = NoExc
    /\ caught' = {}
    /\ pages_to_scrape' = <<>> /\ pageIdx' = 0 /\ tab' = NoTab /\ all_links' = <<>>
    /\ pageLog' = <<>>
    /\ match_links' = <<>>
    /\ concurrent_scraping_task' = 0
    /\ wk' = [a \in Attempts |-> Leftover(wk[a])]
    /\ failed_links' = [a \in Attempts |-> <<>>]
    /\ emo' = "idle"
    /\ gatherExc' = NoExc
    /\ odds_data' = <<>>
    /\ UNCHANGED <<retryOutcome, sleeps, attemptErrors, command, site, parserVars, otherVars, sem,
                   tabVars>>

\* the loop is over: logger.error("Max retries exceeded."); return None
RetryExhausted ==
    /\ retryPc = "loop"
    /\ attempt + 1 \notin RetryRange
    /\ retryPc' = "done"
    /\ retryOutcome' = ReturnedNone
    /\ UNCHANGED <<attempt, invocations, sleeps, attemptErrors, caught, command, flowVars,
                   collectVars, match_links, parserVars, otherVars, schedVars, tabVars>>

\* scrape_func returned: retry_scrape returns its value
RetryReturn ==
    /\ retryPc = "call"
    /\ \/ flowPc = "returned"
       \/ flowPc = "extract" /\ emo = "returned"
    /\ retryPc' = "done"
    /\ retryOutcome' = Returned(odds_data)
    /\ flowPc' = "returned"
    /\ UNCHANGED <<attempt, invocations, sleeps, attemptErrors, caught, command, flowExc,
                   site, collectVars, match_links, parserVars, otherVars, schedVars, tabVars>>

\* the error scrape_func ended with
FlowError == IF flowPc = "raised" THEN flowExc ELSE gatherExc

\* except Exception as e: transient: sleep and go on with the loop; else: raise
RetryExcept ==
    /\ retryPc = "call"
    /\ \/ flowPc = "raised"
       \/ flowPc = "extract" /\ emo = "raised"
    /\ attemptErrors' = [attemptErrors EXCEPT ![attempt] = FlowError]
    /\ flowPc' = "raised"
    /\ flowExc' = FlowError
    /\ IF IsTransient(FlowError)
       THEN /\ retryPc' = "sleeping"
            /\ sleeps' = sleeps + 1
            /\ UNCHANGED retryOutcome
       ELSE /\ retryPc' = "done"
            /\ retryOutcome' = Raised(FlowError)
            /\ UNCHANGED sleeps
    /\ UNCHANGED <<attempt, invocations, caught, command, site, collectVars, match_links,
                   parserVars, otherVars, schedVars, tabVars>>

\* await asyncio.sleep(RETRY_DELAY_SECONDS) is over
RetrySleepDone ==
    /\ retryPc = "sleeping"
    /\ retryPc' = "loop"
    /\ UNCHANGED <<attempt, retryOutcome, invocations, sleeps, attemptErrors, caught, command,
                   flowVars, collectVars, match_links, parserVars, otherVars, schedVars, tabVars>>

RetryStep == RetryCall \/ RetryExhausted \/ RetryReturn \/ RetryExcept \/ RetrySleepDone

(***************************************************************************)
(* BaseScraper._determine_game_type                                        *)
(***************************************************************************)
\* A text is kept as the sequence of its pieces: words, parts of words, " ", "-"
\* and "/".  Every keyword of the function is a sequence of such pieces and the
\* texts below are cut so that a keyword occurs in a text exactly when its
\* pieces occur, in a row, among the pieces of the text.
NoText == <<"None">>

\* `x.lower() if x else ""`: None and "" are falsy
Falsy(s) == s = NoText \/ s = <<>>

\* str.lower() on a piece
LowerPieceIdentity(t) == t

LowerPiece(t) ==
    CASE t = "MLB" -> "mlb"        [] t = "USA" -> "usa"
      [] t = "Baseball" -> "baseball"
      [] t = "All" -> "all"        [] t = "Star" -> "star"
      [] t = "Game" -> "game"      [] t = "World" -> "world"
      [] t = "Series" -> "series"  [] t = "Spring" -> "spring"
      [] t = "Training" -> "training"
      [] t = "Pre" -> "pre"        [] t = "Post" -> "post"
      [] t = "League" -> "league"  [] t = "Regular" -> "regular"
      [] t = "Season" -> "season"  [] t = "Club" -> "club"
      [] t = "Friendly" -> "friendly"
      [] OTHER -> t

Lower(s) == [i \in 1..Len(s) |-> LowerPiece(s[i])]

LowerOrEmpty(s) == IF Falsy(s) THEN <<>> ELSE Lower(s)

\* any(term in text for term in terms)
AnyIn(terms, text) == \E term \in terms : Contains(text, term)

MlbMarker == <<"baseball", "/", "usa", "/", "mlb">>

StagePlayoffTermsWithoutWorldSeries ==
    { <<"playoff">>, <<"post">>, <<"wild", " ", "card">>,
      <<"championship", " ", "series">>, <<"division", " ", "series">> }

StagePlayoffTerms ==
    { <<"playoff">>, <<"post">>, <<"world", " ", "series">>, <<"wild", " ", "card">>,
      <<"championship", " ", "series">>, <<"division", " ", "series">> }
StagePreseasonTerms == { <<"spring", " ", "training">>, <<"pre">>, <<"exhibition">> }
AllStarTerms == { <<"all", "-", "star">>, <<"all", " ", "star">> }
SeasonPlayoffTerms == { <<"playoff">>, <<"post">> }
SeasonPreseasonTerms == { <<"pre">>, <<"spring">> }
NameSpringTraining == <<"spring", " ", "training">>
NamePlayoffTerms ==
    { <<"world", " ", "series">>, <<"playoff">>, <<"post", "season">>, <<"wild", " ", "card">>,
      <<"division", " ", "series">>, <<"championship", " ", "series">> }
UrlPlayoffTerms ==
    { <<"playoff">>, <<"post", "-", "season">>, <<"world", "-", "series">>,
      <<"wild", "-", "card">>, <<"division", "-", "series">>,
      <<"championship", "-", "series">> }
UrlSpringTraining == <<"spring", "-", "training">>
UrlAllStar == <<"all", "-", "star">>

\* [0-9]{4}
Years == {"2023", "2024"}

\* the positions at which r'mlb-[0-9]{4}/([^/]+)' matches
MlbPartStarts(link) ==
    { i \in 1..(Len(link) - 4) :
        /\ link[i] = "mlb" /\ link[i + 1] = "-" /\ link[i + 2] \in Years
        /\ link[i + 3] = "/" /\ link[i + 4] # "/" }

Min(S) == CHOOSE x \in S : \A y \in S : x <= y

\* group(1) of the first match: the pieces up to the next "/"
MlbSpecificPart(link) ==
    LET i == Min(MlbPartStarts(link)) + 4
        stops == {j \in i..Len(link) : link[j] = "/"}
        last == IF stops = {} THEN Len(link) ELSE Min(stops) - 1
    IN  SubSeq(link, i, last)

\* game_type_patterns, in the order of the dict
GameTypePatterns ==
    << [game_type |-> "playoffs",
        patterns |-> { <<"playoff">>, <<"post", "-", "season">>, <<"post", "season">>,
                       <<"world", " ", "series">>, <<"wild", " ", "card">>,
                       <<"wild", "card">>, <<"division", " ", "series">>,
                       <<"championship", " ", "series">>, <<"final">>, <<"final", "s">>,
                       <<"semi", "final">> }],
       [game_type |-> "preseason",
        patterns |-> { <<"pre", "-", "season">>, <<"pre", "season">>,
                       <<"spring", " ", "training">>, <<"exhibition", " ", "game">>,
                       <<"warm", "-", "up">>, <<"preparatory">>,
                       <<"friendly", " ", "match">> }],
       [game_type |-> "exhibition",
        patterns |-> { <<"exhibition">>, <<"all", "-", "star">>, <<"all", " ", "star">>,
                       <<"all", "-", "star", "s">>, <<"friendly">>, <<"charity">>,
                       <<"showcase">>, <<"celebrity">>, <<"demo">>,
                       <<"demo", "nstration">> }],
       [game_type |-> "qualification",
        patterns |-> { <<"qualification">>, <<"qualifier">>, <<"qualifying">>,
                       <<"prelim">>, <<"prelim", "inary">>, <<"play", "-", "in">>,
                       <<"play", " ", "in">>, <<"knockout", " ", "stage">>,
                       <<"group", " ", "stage">> }] >>

NoGameType == "None"
UnknownGameType == "unknown"
DefaultGameType == "regular_season"

\* the result of a branch that returns nothing: the function goes on
GoesOn == "goes on"

\* 1. tournament stage
ByStage(stage) ==
    IF stage = <<>> THEN GoesOn
    ELSE IF AnyIn(StagePlayoffTerms, stage) THEN "playoffs"
    ELSE IF AnyIn(StagePreseasonTerms, stage) THEN "preseason"
    ELSE IF AnyIn(AllStarTerms, stage) THEN "exhibition"
    ELSE GoesOn

\* 2. season type
BySeasonType(season) ==
    IF season = <<>> THEN GoesOn
    ELSE IF AnyIn(SeasonPlayoffTerms, season) THEN "playoffs"
    ELSE IF AnyIn(SeasonPreseasonTerms, season) THEN "preseason"
    ELSE GoesOn

\* 3. tournament name
ByTournamentName(name) ==
    IF name = <<>> THEN GoesOn
    ELSE IF Contains(name, NameSpringTraining) THEN "preseason"
    ELSE IF AnyIn(AllStarTerms, name) THEN "exhibition"
    ELSE IF AnyIn(NamePlayoffTerms, name) THEN "playoffs"
    ELSE GoesOn

\* 4. the part of the URL after mlb-<year>/
ByMlbUrl(link) ==
    IF MlbPartStarts(link) = {} THEN GoesOn
    ELSE LET part == MlbSpecificPart(link) IN
         IF AnyIn(UrlPlayoffTerms, part) THEN "playoffs"
         ELSE IF Contains(part, UrlSpringTraining) THEN "preseason"
         ELSE IF Contains(part, UrlAllStar) THEN "exhibition"
         ELSE GoesOn

\* the block under `if "baseball/usa/mlb" in link_lower`
MlbGameType(link, name, season, stage) ==
    IF ByStage(stage) # GoesOn THEN ByStage(stage)
    ELSE IF BySeasonType(season) # GoesOn THEN BySeasonType(season)
    ELSE IF ByTournamentName(name) # GoesOn THEN ByTournamentName(name)
    ELSE ByMlbUrl(link)

\* `(pattern in link_lower) or (tournament_lower and pattern in tournament_lower)`
PatternFound(patterns, link, name) == AnyIn(patterns, link) \/ AnyIn(patterns, name)

\* the loop over game_type_patterns, from entry k on
RECURSIVE GeneralGameType(_, _, _)
GeneralGameType(k, link, name) ==
    IF k > Len(GameTypePatterns) THEN DefaultGameType
    ELSE IF PatternFound(GameTypePatterns[k].patterns, link, name)
         THEN GameTypePatterns[k].game_type
         ELSE GeneralGameType(k + 1, link, name)

\* _determine_game_type(match_link, tournament_name, season_type, tournament_stage)
DetermineGameType(match_link, tournament_name, season_type, tournament_stage) ==
    LET link_lower == LowerOrEmpty(match_link)
        tournament_lower == LowerOrEmpty(tournament_name)
        season_type_lower == LowerOrEmpty(season_type)
        tournament_stage_lower == LowerOrEmpty(tournament_stage)
        mlb == IF Contains(link_lower, MlbMarker)
               THEN MlbGameType(link_lower, tournament_lower, season_type_lower,
                                tournament_stage_lower)
               ELSE GoesOn
    IN  IF mlb # GoesOn THEN mlb ELSE GeneralGameType(1, link_lower, tournament_lower)

\* inputs: the URL of the match page and the three fields of eventData
UrlMlbMatch ==
    <<"https://www.oddsportal.com", "/", "baseball", "/", "usa", "/", "mlb", "/",
      "yankees-dodgers", "/">>
UrlMlbUpper ==
    <<"https://www.oddsportal.com", "/", "Baseball", "/", "USA", "/", "MLB", "/",
      "yankees-dodgers", "/">>
UrlMlbSeasonPlayoffs ==
    <<"https://www.oddsportal.com", "/", "baseball", "/", "usa", "/", "mlb", "-", "2023",
      "/", "world", "-", "series", "/", "yankees-dodgers", "/">>
UrlMlbSeasonRegular ==
    <<"https://www.oddsportal.com", "/", "baseball", "/", "usa", "/", "mlb", "-", "2024",
      "/", "yankees-dodgers", "/">>
UrlFootball ==
    <<"https://www.oddsportal.com", "/", "football", "/", "england", "/", "pre", "mier", "-",
      "league", "/", "arsenal-chelsea", "/">>
UrlCupFinal ==
    <<"https://www.oddsportal.com", "/", "football", "/", "europe", "/", "champions", "-",
      "league", "/", "final", "/">>
UrlTennis ==
    <<"https://www.oddsportal.com", "/", "tennis", "/", "atp-tour", "/", "a-b", "/">>

WorldSeries == <<"World", " ", "Series">>
MlbAllStarGame == <<"MLB", " ", "All", "-", "Star", " ", "Game">>

UrlInputs ==
    {NoText, UrlMlbMatch, UrlMlbUpper, UrlMlbSeasonPlayoffs, UrlMlbSeasonRegular, UrlFootball,
     UrlCupFinal, UrlTennis}
TournamentNameInputs ==
    {NoText, <<"MLB">>, MlbAllStarGame, <<"Spring", " ", "Training">>, WorldSeries,
     <<"Pre", "mier", " ", "League">>, <<"Club", " ", "Friendly">>, <<"qualifying">>}
SeasonTypeInputs ==
    {NoText, <<>>, <<"Regular", " ", "Season">>, <<"Post", "season">>, <<"Pre", "season">>}
TournamentStageInputs ==
    {NoText, <<>>, WorldSeries, <<"Spring", " ", "Training">>, <<"All", "-", "Star">>,
     <<"Regular", " ", "Season">>}

NoEventData ==
    [match_link |-> NoText, tournamentName |-> NoText, seasonType |-> NoText,
     tournamentStage |-> NoText]

EventDataInputs ==
    [match_link : UrlInputs, tournamentName : TournamentNameInputs,
     seasonType : SeasonTypeInputs, tournamentStage : TournamentStageInputs]

HeaderIdle == event_data = NoEventData /\ game_type = NoGameType

\* game_type = self._determine_game_type(match_link, tournament_name, season_type,
\* tournament_stage)
CallDetermineGameType ==
    /\ game_type = NoGameType
    /\ game_type' = DetermineGameType(event_data.match_link, event_data.tournamentName,
                                      event_data.seasonType, event_data.tournamentStage)
    /\ UNCHANGED <<coreVars, laterVars, extractVars, event_data, oddsVars, marketVars, runVars>>

(***************************************************************************)
(* OddsPortalMarketExtractor._parse_market_odds: normalisation of odds     *)
(***************************************************************************)
\* An odds text is the sequence of its characters.
Digits == {"1", "5", "9", "0", "2"}

\* the lengths L for which (\d+\.\d+)\1 matches at position i with a group of L
\* characters
GroupLens(value, i) ==
    { L \in 3..((Len(value) - i + 1) \div 2) :
        /\ \E dot \in (i + 1)..(i + L - 2) :
             /\ value[dot] = "."
             /\ \A j \in i..(i + L - 1) : j # dot => value[j] \in Digits
        /\ SubSeq(value, i, i + L - 1) = SubSeq(value, i + L, i + 2 * L - 1) }

Max(S) == CHOOSE x \in S : \A y \in S : x >= y

\* the pass is left out
KeepOddsText(value, i) == SubSeq(value, i, Len(value))

\* re.sub(r"(\d+\.\d+)\1", r"\1", value), from position i on: matches are taken
\* from left to right, \d+ is greedy, the scan goes on after a match
RECURSIVE NormalizeOdds(_, _)
NormalizeOdds(value, i) ==
    IF i > Len(value) THEN <<>>
    ELSE IF GroupLens(value, i) = {} THEN <<value[i]>> \o NormalizeOdds(value, i + 1)
    ELSE LET L == Max(GroupLens(value, i))
         IN  SubSeq(value, i, i + L - 1) \o NormalizeOdds(value, i + 2 * L)

\* texts of odds cells: those of three characters up to MaxOddsLen, and others
OddsAlphabet == {"1", "5", "."}
OddsExamples ==
    { <<"1", ".", "9", "5", "1", ".", "9", "5">>, <<"2", ".", "1", "0">>,
      <<"2", ".", "1", "0", "2", ".", "1", "0">>, <<"-", "1", "5", "0">>, <<"-">> }
OddsTextInputs == SeqsUpTo(OddsAlphabet, MaxOddsLen) \cup OddsExamples

OddsIdle == odds_text = <<>> /\ odds_passes = <<>>

\* extracted_odds_values[key] = re.sub(...), and the same pass on its result
NormalizeOddsValue ==
    /\ Len(odds_passes) < 2
    /\ odds_passes' = Append(odds_passes,
                             NormalizeOdds(IF odds_passes = <<>> THEN odds_text
                                           ELSE odds_passes[Len(odds_passes)], 1))
    /\ UNCHANGED <<coreVars, laterVars, extractVars, headerVars, odds_text, marketVars, runVars>>

(***************************************************************************)
(* SportMarketRegistry and SportMarketRegistrar                            *)
(***************************************************************************)
\* The value of an enum member (a market key) is kept as the sequence of its
\* pieces, "_" apart wherever the code cuts or replaces at it.
FootballOverUnderMarket ==
    { <<"over_under", "_", "0", "_", "5">>, <<"over_under", "_", "1">>,
      <<"over_under", "_", "1", "_", "5">>, <<"over_under", "_", "2">>,
      <<"over_under", "_", "2", "_", "5">>, <<"over_under", "_", "3">>,
      <<"over_under", "_", "3", "_", "5">>, <<"over_under", "_", "4">>,
      <<"over_under", "_", "4", "_", "5">>, <<"over_under", "_", "5">>,
      <<"over_under", "_", "5", "_", "5">>, <<"over_under", "_", "6">>,
      <<"over_under", "_", "6", "_", "5">> }
FootballEuropeanHandicapMarket ==
    { <<"european_handicap", "_", "-4">>, <<"european_handicap", "_", "-3">>,
      <<"european_handicap", "_", "-2">>, <<"european_handicap", "_", "-1">>,
      <<"european_handicap", "_", "1">>, <<"european_handicap", "_", "2">>,
      <<"european_handicap", "_", "3">>, <<"european_handicap", "_", "4">> }
TennisOverUnderSetsMarket == { <<"over_under", "_", "sets", "_", "2", "_", "5">> }
TennisOverUnderGamesMarket ==
    { <<"over_under", "_", "games", "_", n, "_", "5">> :
        n \in {"16", "17", "18", "19", "20", "21", "22", "23", "24"} }
TennisAsianHandicapGamesMarket ==
    { <<"asian_handicap", "_", "games", "_", n, "_", "5">> :
        n \in {"2", "3", "4", "5", "6", "7", "8"} }
TennisCorrectScoreMarket ==
    { <<"correct_score", "_", "2", "_", "0">>, <<"correct_score", "_", "2", "_", "1">>,
      <<"correct_score", "_", "0", "_", "2">>, <<"correct_score", "_", "1", "_", "2">> }

\* enums the registrar imports whose members are not part of the sources at hand
FootballAsianHandicapMarket ==
    { <<"asian_handicap", "_", "-1">>, <<"asian_handicap", "_", "-1", "_", "5">> }
BasketballOverUnderMarket == { <<"over_under", "_", "games", "_", "220", "_", "5">> }
BasketballAsianHandicapMarket ==
    { <<"asian_handicap", "_", "games", "_", "-5", "_", "5", "_", "games">> }

\* str.replace(old, new)
RECURSIVE Replace(_, _, _)
Replace(text, old, new) ==
    IF Len(text) < Len(old) THEN text
    ELSE IF SubSeq(text, 1, Len(old)) = old
         THEN new \o Replace(SubSeq(text, Len(old) + 1, Len(text)), old, new)
         ELSE <<Head(text)>> \o Replace(Tail(text), old, new)

\* value.split('_')[-1]
LastPart(text) ==
    LET cuts == {j \in 1..Len(text) : text[j] = "_"}
    IN  IF cuts = {} THEN text ELSE SubSeq(text, Max(cuts) + 1, Len(text))

\* a lambda made without the labels
CreateMarketLambdaWithoutLabels(main_market, specific_market, odds_labels) ==
    [main_market |-> main_market, specific_market |-> specific_market, odds_labels |-> <<>>]

\* create_market_lambda: the lambda is kept as the values it closes over
CreateMarketLambda(main_market, specific_market, odds_labels) ==
    [main_market |-> main_market, specific_market |-> specific_market,
     odds_labels |-> odds_labels]

\* dict.update
Update(d, mapping) ==
    [k \in DOMAIN d \cup DOMAIN mapping |-> IF k \in DOMAIN mapping THEN mapping[k] ELSE d[k]]

\* SportMarketRegistry.register(sport, market_mapping)
Register(reg, sp, market_mapping) ==
    LET registered == IF sp \in DOMAIN reg THEN reg[sp] ELSE <<>>
    IN  Update(reg, sp :> Update(registered, market_mapping))

\* SportMarketRegistry.get_market_mapping(sport)
GetMarketMapping(reg, sp) == IF sp \in DOMAIN reg THEN reg[sp] ELSE <<>>

OverUnderLabels == <<"odds_over", "odds_under">>

\* register_football_markets
RegisterFootballMarkets(reg) ==
    LET base == Register(reg, "football",
            (<<"1x2">> :> CreateMarketLambda("1X2", NoText, <<"1", "X", "2">>))
         @@ (<<"btts">> :> CreateMarketLambda("Both Teams to Score", NoText,
                                              <<"btts_yes", "btts_no">>))
         @@ (<<"double_chance">> :> CreateMarketLambda("Double Chance", NoText,
                                                       <<"1X", "12", "X2">>))
         @@ (<<"dnb">> :> CreateMarketLambda("Draw No Bet", NoText,
                                             <<"dnb_team1", "dnb_team2">>)))
        ou == Register(base, "football",
            [v \in FootballOverUnderMarket |->
                CreateMarketLambda("Over/Under",
                    <<"Over/Under +">> \o Replace(Replace(v, <<"over_under", "_">>, <<>>),
                                                  <<"_">>, <<".">>),
                    OverUnderLabels)])
        eh == Register(ou, "football",
            [v \in FootballEuropeanHandicapMarket |->
                CreateMarketLambda("European Handicap",
                    <<"European Handicap ">> \o LastPart(v),
                    <<"team1_handicap", "draw_handicap", "team2_handicap">>)])
    IN  Register(eh, "football",
            [v \in FootballAsianHandicapMarket |->
                CreateMarketLambda("Asian Handicap",
                    <<"Asian Handicap ">> \o Replace(Replace(v, <<"asian_handicap", "_">>, <<>>),
                                                     <<"_">>, <<".">>),
                    <<"team1_handicap", "team2_handicap">>)])

\* register_tennis_markets
RegisterTennisMarkets(reg) ==
    LET base == Register(reg, "tennis",
            <<"match_winner">> :> CreateMarketLambda("Home/Away", NoText,
                                                     <<"player_1", "player_2">>))
        sets == Register(base, "tennis",
            [v \in TennisOverUnderSetsMarket |->
                CreateMarketLambda("Over/Under",
                    <<"Over/Under +">>
                        \o Replace(Replace(v, <<"over_under", "_", "sets", "_">>, <<>>),
                                   <<"_">>, <<".">>) \o <<" Sets">>,
                    OverUnderLabels)])
        games == Register(sets, "tennis",
            [v \in TennisOverUnderGamesMarket |->
                CreateMarketLambda("Over/Under",
                    <<"Over/Under +">>
                        \o Replace(Replace(v, <<"over_under", "_", "games", "_">>, <<>>),
                                   <<"_">>, <<".">>) \o <<" Games">>,
                    OverUnderLabels)])
        ah == Register(games, "tennis",
            [v \in TennisAsianHandicapGamesMarket |->
                CreateMarketLambda("Asian Handicap",
                    <<"Asian Handicap ">>
                        \o Replace(Replace(Replace(v, <<"asian_handicap", "_", "games", "_">>,
                                                   <<>>),
                                           <<"_", "games">>, <<>>),
                                   <<"_">>, <<".">>) \o <<" Games">>,
                    <<"handicap_player_1", "handicap_player_2">>)])
    IN  Register(ah, "tennis",
            [v \in TennisCorrectScoreMarket |->
                CreateMarketLambda("Correct Score",
                    Replace(Replace(v, <<"correct_score", "_">>, <<>>), <<"_">>, <<":">>),
                    <<"correct_score">>)])

\* register_basketball_markets
RegisterBasketballMarkets(reg) ==
    LET base == Register(reg, "basketball",
            (<<"1x2">> :> CreateMarketLambda("1X2", NoText, <<"1", "X", "2">>))
         @@ (<<"home_away">> :> CreateMarketLambda("Home/Away", NoText, <<"1", "2">>)))
        ou == Register(base, "basketball",
            [v \in BasketballOverUnderMarket |->
                CreateMarketLambda("Over/Under",
                    <<"Over/Under +">>
                        \o Replace(Replace(v, <<"over_under", "_", "games", "_">>, <<>>),
                                   <<"_">>, <<".">>),
                    OverUnderLabels)])
    IN  Register(ou, "basketball",
            [v \in BasketballAsianHandicapMarket |->
                CreateMarketLambda("Asian Handicap",
                    <<"Asian Handicap ">>
                        \o Replace(Replace(Replace(v, <<"asian_handicap", "_", "games", "_">>,
                                                   <<>>),
                                           <<"_", "games">>, <<>>),
                                   <<"_">>, <<".">>),
                    <<"handicap_team_1", "handicap_team_2">>)])

\* the registry after register_all_markets()
AllMarketsRegistered(reg) ==
    RegisterBasketballMarkets(RegisterTennisMarkets(RegisterFootballMarkets(reg)))

\* SportMarketRegistrar.register_all_markets()
RegisterAllMarkets ==
    /\ smPc = "start"
    /\ registry' = AllMarketsRegistered(registry)
    /\ smPc' = "registered"
    /\ UNCHANGED <<coreVars, laterVars, extractVars, headerVars, oddsVars, runVars, sport, markets, marketIdx, market_data>>

(***************************************************************************)
(* OddsPortalMarketExtractor.scrape_markets                                *)
(***************************************************************************)
NoneValue == "None"
TypeError == "TypeError"

\* the lambda of create_market_lambda takes extractor, page and period
LambdaMaxArgs == 3
\* scrape_markets passes self, page, period, scrape_odds_history, target_bookmaker
ScrapeMarketsCallArgs == 5

\* what extract_market_odds hands back to the lambda: a list of quotes
ExtractMarketOddsResults == { <<>>, <<"quote">> }

\* calling a registered lambda with nargs positional arguments
CallMarketMethod(method, nargs) ==
    IF nargs > LambdaMaxArgs THEN {TypeError} ELSE ExtractMarketOddsResults

\* f"{market}_market"
MarketDataKey(market) == market \o <<"_market">>

\* a loop that takes every key for a registered one
MarketRegisteredAlways(market, market_methods) == TRUE

\* market in market_methods
MarketRegistered(market, market_methods) == market \in DOMAIN market_methods

SportInputs == {"football", "tennis", "basketball", "baseball"}
MarketKeyInputs ==
    { <<"1x2">>, <<"over_under", "_", "2", "_", "5">>, <<"match_winner">>, <<"moneyline">> }
MarketsInputs == SeqsUpTo(MarketKeyInputs, MaxMarkets)

\* scrape_markets: market_data = {}; market_methods = get_market_mapping(sport)
ScrapeMarketsBegin ==
    /\ smPc = "registered"
    /\ market_data' = <<>>
    /\ marketIdx' = 1
    /\ smPc' = "loop"
    /\ UNCHANGED <<coreVars, laterVars, extractVars, headerVars, oddsVars, runVars, registry, sport, markets>>

\* one pass of "for market in markets"
ScrapeMarket ==
    /\ smPc = "loop"
    /\ marketIdx <= Len(markets)
    /\ LET market == markets[marketIdx]
           market_methods == GetMarketMapping(registry, sport)
       IN  IF MarketRegistered(market, market_methods)
           THEN \E outcome \in CallMarketMethod(market_methods[market], ScrapeMarketsCallArgs) :
                    market_data' = Update(market_data,
                        MarketDataKey(market) :>
                            (IF outcome = TypeError THEN NoneValue ELSE outcome))
           ELSE market_data' = market_data
    /\ marketIdx' = marketIdx + 1
    /\ UNCHANGED <<coreVars, laterVars, extractVars, headerVars, oddsVars, runVars, registry, smPc, sport, markets>>

\* return market_data
ScrapeMarketsReturn ==
    /\ smPc = "loop"
    /\ marketIdx > Len(markets)
    /\ smPc' = "returned"
    /\ UNCHANGED <<coreVars, laterVars, extractVars, headerVars, oddsVars, runVars, registry, sport, markets, marketIdx,
                   market_data>>

MarketsIdle ==
    /\ registry = <<>>
    /\ smPc = "idle"
    /\ sport = "football"
    /\ markets = <<>>
    /\ marketIdx = 1
    /\ market_data = <<>>

(***************************************************************************)
(* run_scraper                                                             *)
(***************************************************************************)
\* the ValueErrors run_scraper raises itself
MissingHistoricArgs ==
    [kind |-> "exc", cls |-> "ValueError",
     msg |-> <<"Both 'sport', 'league' and 'season' must be provided for historic scraping.">>]
MissingDate ==
    [kind |-> "exc", cls |-> "ValueError",
     msg |-> <<"A valid 'date' must be provided for upcoming matches scraping.">>]
UnknownCommand ==
    [kind |-> "exc", cls |-> "ValueError", msg |-> <<"Unknown command">>]
\* PlaywrightManager.initialize logs and re-raises what the browser start raised
LaunchFailed ==
    [kind |-> "exc", cls |-> "playwright.Error", msg |-> <<"Executable doesn't exist">>]

NoResult == [kind |-> "none"]

\* what PlaywrightManager holds: nothing, the playwright driver only, or driver,
\* browser, context and page
BrowserStates == {"none", "playwright", "launched"}

\* run_scraper up to the end of start_playwright: ProxyManager, register_all_markets,
\* the scraper objects, the tzdata check (which never raises), start_playwright
RunStartPlaywright ==
    /\ runPc = "start"
    /\ registry' = AllMarketsRegistered(registry)
    /\ \E reached \in BrowserStates :
          /\ browser' = reached
          /\ launches' = launches + (IF reached = "launched" THEN 1 ELSE 0)
          /\ IF reached = "launched"
             THEN runPc' = "dispatch" /\ run_result' = run_result
             ELSE runPc' = "except" /\ run_result' = Raised(LaunchFailed)
    /\ UNCHANGED <<coreVars, laterVars, extractVars, headerVars, oddsVars, smPc, sport, markets, marketIdx,
                   market_data, run_args, playwright_stops>>

\* the command and arguments retry_scrape hands to the flow
FlowCommand(args) ==
    [cmd |-> args.command,
     league_valid |-> IF args.command = "historic" THEN args.league_valid ELSE TRUE,
     max_pages |-> NoMaxPages]

\* the check run_scraper makes for the command: the error it raises, NoExc if none
ArgumentError(args) ==
    IF args.command = "historic"
    THEN IF ~args.sport \/ ~args.league \/ ~args.season THEN MissingHistoricArgs ELSE NoExc
    ELSE IF args.command = "upcoming"
         THEN IF ~args.date THEN MissingDate ELSE NoExc
         ELSE UnknownCommand

\* if command == HISTORIC ... elif command == UPCOMING_MATCHES ... else: raise, or the
\* call of retry_scrape
RunDispatch ==
    /\ runPc = "dispatch"
    /\ IF ArgumentError(run_args) # NoExc
       THEN /\ runPc' = "except"
            /\ run_result' = Raised(ArgumentError(run_args))
            /\ UNCHANGED <<attempt, retryPc, command>>
       ELSE /\ runPc' = "retry_scrape"
            /\ run_result' = run_result
            /\ attempt' = 0
            /\ retryPc' = "loop"
            /\ command' = FlowCommand(run_args)
    /\ UNCHANGED <<retryOutcome, invocations, sleeps, attemptErrors, caught, flowVars,
                   collectVars, match_links, parserVars, schedVars, tabVars, headerVars,
                   oddsVars, marketVars, extractVars, laterVars, run_args, browser, launches,
                   playwright_stops>>

\* return await retry_scrape(...): its value is the value of run_scraper, its
\* error goes to the except clause
RunRetryDone ==
    /\ runPc = "retry_scrape"
    /\ retryPc = "done"
    /\ run_result' = retryOutcome
    /\ runPc' = IF retryOutcome.kind = "raise" THEN "except" ELSE "finally"
    /\ UNCHANGED <<coreVars, laterVars, extractVars, headerVars, oddsVars, marketVars, run_args,
                   browser, launches, playwright_stops>>

\* an except clause after which no finally clause runs
RunExceptEndsCall ==
    /\ runPc = "except"
    /\ run_result' = ReturnedNone
    /\ runPc' = "done"
    /\ UNCHANGED <<coreVars, laterVars, extractVars, headerVars, oddsVars, marketVars, run_args,
                   browser, launches, playwright_stops>>

\* except Exception as e: logger.error(...); return None
RunExcept ==
    /\ runPc = "except"
    /\ run_result' = ReturnedNone
    /\ runPc' = "finally"
    /\ UNCHANGED <<coreVars, laterVars, extractVars, headerVars, oddsVars, marketVars, run_args,
                   browser, launches, playwright_stops>>

\* finally: await scraper.stop_playwright().  PlaywrightManager.cleanup closes what
\* was started and catches nothing: an error of a close() replaces the value returned.
RunFinally ==
    /\ runPc = "finally"
    /\ \E closeExc \in (IF browser = "launched" THEN {NoExc, PwTargetClosed} ELSE {NoExc}) :
          IF closeExc = NoExc
          THEN browser' = "none" /\ run_result' = run_result
          ELSE browser' = "playwright" /\ run_result' = Raised(closeExc)
    /\ playwright_stops' = playwright_stops + 1
    /\ runPc' = "done"
    /\ UNCHANGED <<coreVars, laterVars, extractVars, headerVars, oddsVars, marketVars, run_args,
                   launches>>

RunStep == RunStartPlaywright \/ RunDispatch \/ RunRetryDone \/ RunExcept \/ RunFinally

Arguments(cmd, sp, lg, se, dt, valid) ==
    [command |-> cmd, sport |-> sp, league |-> lg, season |-> se, date |-> dt,
     league_valid |-> valid]

\* calls of run_scraper without match_links
RunArgsInputs ==
    { Arguments("historic", TRUE, TRUE, TRUE, FALSE, TRUE),
      Arguments("historic", TRUE, TRUE, TRUE, FALSE, FALSE),
      Arguments("historic", FALSE, TRUE, TRUE, FALSE, TRUE),
      Arguments("historic", TRUE, FALSE, TRUE, FALSE, TRUE),
      Arguments("historic", TRUE, TRUE, FALSE, FALSE, TRUE),
      Arguments("upcoming", TRUE, FALSE, FALSE, TRUE, TRUE),
      Arguments("upcoming", TRUE, FALSE, FALSE, FALSE, TRUE),
      Arguments("unknown", TRUE, TRUE, TRUE, TRUE, TRUE) }

NoArguments == Arguments("none", FALSE, FALSE, FALSE, FALSE, TRUE)

RunIdle ==
    /\ runPc = "idle"
    /\ run_args = NoArguments
    /\ browser = "none"
    /\ launches = 0
    /\ run_result = NoResult
    /\ playwright_stops = 0

(***************************************************************************)
(* OddsPortalMarketExtractor.extract_market_odds                           *)
(***************************************************************************)
NoBookmaker == "None"
Bookmakers == {"bet365", "Pinnacle"}

\* a bookmaker row of the page: the title of its logo, and whether it has an odds
\* block for every label
BookmakerRowInputs == [bookmaker_name : Bookmakers, complete : BOOLEAN]
PageRowsInputs == SeqsUpTo(BookmakerRowInputs, MaxBookmakers)

\* specific_market given or not, scrape_odds_history, target_bookmaker, and whether
\* sport and market_key are those of the baseball Over/Under market
ExtractArgsInputs ==
    [specific_market : BOOLEAN, scrape_odds_history : BOOLEAN,
     target_bookmaker : {NoBookmaker, "bet365"}, baseball_over_under : BOOLEAN]
NoExtractArgs ==
    [specific_market |-> FALSE, scrape_odds_history |-> FALSE,
     target_bookmaker |-> NoBookmaker, baseball_over_under |-> FALSE]

\* odds_entry without the key "odds_history_data"
NoHistory == "None"
Quote(name) == [bookmaker_name |-> name, odds_history_data |-> NoHistory]

\* if specific_market and not (sport == BASEBALL and market_key == OVER_UNDER)
UsesSubMarket(args) == args.specific_market /\ ~args.baseball_over_under

\* _parse_market_odds: one quote per row that is complete and of the target bookmaker
RECURSIVE ParseMarketOdds(_, _)
ParseMarketOdds(rows, target_bookmaker) ==
    IF rows = <<>> THEN <<>>
    ELSE LET row == Head(rows)
             kept == /\ row.complete
                     /\ target_bookmaker \in {NoBookmaker, row.bookmaker_name}
         IN  (IF kept THEN <<Quote(row.bookmaker_name)>> ELSE <<>>)
                 \o ParseMarketOdds(Tail(rows), target_bookmaker)

\* an awaited call raised inside the try of extract_market_odds: control goes to the
\* except clause
ExtractRaise(step) ==
    /\ emPc' = "except"
    /\ em_error' = step

\* navigate_to_market_tab: the tab is reached, it is not found, or the click raises
ExtractNavigate ==
    /\ emPc = "start"
    /\ \/ /\ emPc' = "sub_market"
          /\ UNCHANGED <<em_error, em_result>>
       \/ /\ emPc' = "returned"
          /\ em_result' = <<>>
          /\ UNCHANGED em_error
       \/ /\ ExtractRaise("navigate")
          /\ UNCHANGED em_result
    /\ UNCHANGED <<coreVars, laterVars, headerVars, oddsVars, marketVars, runVars, em_args, page_rows,
                   sub_market_open, market_odds, histIdx>>

\* the sub-market is selected with scroll_until_visible_and_click_parent: clicked,
\* not found within the timeout (return []), or a page call raises
ExtractOpenSubMarket ==
    /\ emPc = "sub_market"
    /\ IF UsesSubMarket(em_args)
       THEN \/ /\ sub_market_open' = TRUE
               /\ emPc' = "settle"
               /\ UNCHANGED <<em_error, em_result>>
            \/ /\ emPc' = "returned"
               /\ em_result' = <<>>
               /\ UNCHANGED <<em_error, sub_market_open>>
            \/ /\ ExtractRaise("sub_market")
               /\ UNCHANGED <<em_result, sub_market_open>>
       ELSE /\ emPc' = "settle"
            /\ UNCHANGED <<em_error, em_result, sub_market_open>>
    /\ UNCHANGED <<coreVars, laterVars, headerVars, oddsVars, marketVars, runVars, em_args, page_rows,
                   market_odds, histIdx>>

\* page.wait_for_timeout(SCROLL_PAUSE_TIME); for baseball Over/Under the expansion of
\* the rows follows, whose own errors are caught and logged
ExtractSettle ==
    /\ emPc = "settle"
    /\ \/ /\ emPc' = "content"
          /\ UNCHANGED em_error
       \/ ExtractRaise("settle")
    /\ UNCHANGED <<coreVars, laterVars, headerVars, oddsVars, marketVars, runVars, em_args, page_rows,
                   sub_market_open, market_odds, histIdx, em_result>>

\* html_content = await page.content()
ExtractContent ==
    /\ emPc = "content"
    /\ \/ /\ emPc' = "parse"
          /\ UNCHANGED em_error
       \/ ExtractRaise("content")
    /\ UNCHANGED <<coreVars, laterVars, headerVars, oddsVars, marketVars, runVars, em_args, page_rows,
                   sub_market_open, market_odds, histIdx, em_result>>

\* odds_data = await self._parse_market_odds(...)
ExtractParse ==
    /\ emPc = "parse"
    /\ \/ /\ market_odds' = ParseMarketOdds(page_rows, em_args.target_bookmaker)
          /\ emPc' = IF em_args.scrape_odds_history THEN "history" ELSE "close"
          /\ histIdx' = 1
          /\ UNCHANGED em_error
       \/ /\ ExtractRaise("parse")
          /\ UNCHANGED <<market_odds, histIdx>>
    /\ UNCHANGED <<coreVars, laterVars, headerVars, oddsVars, marketVars, runVars, em_args, page_rows,
                   sub_market_open, em_result>>

\* what collecting the history of one bookmaker comes to: the first wait or the row
\* query of _extract_odds_history_for_bookmaker raises; no overlay is captured
\* (missing, hover failed: caught per row and per odds element); an overlay is
\* captured and _parse_odds_history_modal returns {} for it; it is parsed
HistoryOutcomes == {"raise", "no_modal", "unparseable", "parsed"}

\* odds_entry["odds_history_data"] after the modals were looked at
HistoryData(outcome) ==
    IF outcome = "no_modal" THEN NoHistory
    ELSE IF outcome = "unparseable" THEN <<>> ELSE <<"history">>

\* one pass of "for odds_entry in odds_data"
ExtractHistory ==
    /\ emPc = "history"
    /\ histIdx <= Len(market_odds)
    /\ LET odds_entry == market_odds[histIdx]
       IN  IF em_args.target_bookmaker \notin {NoBookmaker, odds_entry.bookmaker_name}
           THEN /\ histIdx' = histIdx + 1
                /\ UNCHANGED <<emPc, market_odds, em_error>>
           ELSE \E outcome \in HistoryOutcomes :
                   IF outcome = "raise"
                   THEN /\ ExtractRaise("history")
                        /\ UNCHANGED <<market_odds, histIdx>>
                   ELSE /\ market_odds' = [market_odds EXCEPT
                                ![histIdx].odds_history_data = HistoryData(outcome)]
                        /\ histIdx' = histIdx + 1
                        /\ UNCHANGED <<emPc, em_error>>
    /\ UNCHANGED <<coreVars, laterVars, headerVars, oddsVars, marketVars, runVars, em_args, page_rows,
                   sub_market_open, em_result>>

\* the history loop is over
ExtractHistoryDone ==
    /\ emPc = "history"
    /\ histIdx > Len(market_odds)
    /\ emPc' = "close"
    /\ UNCHANGED <<coreVars, laterVars, headerVars, oddsVars, marketVars, runVars, em_args, page_rows,
                   sub_market_open, market_odds, histIdx, em_error, em_result>>

\* the sub-market is clicked again to close it (a failure to find it is only logged),
\* then return odds_data
ExtractCloseSubMarket ==
    /\ emPc = "close"
    /\ IF UsesSubMarket(em_args)
       THEN \/ /\ sub_market_open' = FALSE
               /\ emPc' = "returned"
               /\ em_result' = market_odds
               /\ UNCHANGED em_error
            \/ /\ emPc' = "returned"
               /\ em_result' = market_odds
               /\ UNCHANGED <<em_error, sub_market_open>>
            \/ /\ ExtractRaise("close")
               /\ UNCHANGED <<em_result, sub_market_open>>
       ELSE /\ emPc' = "returned"
            /\ em_result' = market_odds
            /\ UNCHANGED <<em_error, sub_market_open>>
    /\ UNCHANGED <<coreVars, laterVars, headerVars, oddsVars, marketVars, runVars, em_args, page_rows,
                   market_odds, histIdx>>

\* except Exception as e: logger.error(...); return []
ExtractExcept ==
    /\ emPc = "except"
    /\ emPc' = "returned"
    /\ em_result' = <<>>
    /\ UNCHANGED <<coreVars, laterVars, headerVars, oddsVars, marketVars, runVars, em_args, page_rows,
                   sub_market_open, market_odds, histIdx, em_error>>

ExtractIdle ==
    /\ emPc = "idle"
    /\ em_args = NoExtractArgs
    /\ page_rows = <<>>
    /\ sub_market_open = FALSE
    /\ market_odds = <<>>
    /\ histIdx = 0
    /\ em_error = "none"
    /\ em_result = <<>>

(***************************************************************************)
(* OddsPortalMarketExtractor._parse_market_odds, generic path              *)
(***************************************************************************)
NotParsed == "None"
NoLogo == "Unknown"

\* str.lower() of a bookmaker name
LowerName(name) ==
    CASE name = "Pinnacle" -> "pinnacle"
      [] name = "Unknown" -> "unknown"
      [] OTHER -> name

\* the text of the i-th odds block of a row; the first is rendered twice in a row
OddsCellText(i) ==
    IF i = 1 THEN <<"1", ".", "5", "1", ".", "5">> ELSE <<"2", ".", "0">>

\* a bookmaker block: the title of its logo and the number of its odds blocks
BlockInputs == [title : {"bet365", "Pinnacle", "", NoLogo}, odds_value_blocks : 0..MaxOddsBlocks]
BookmakerBlocksInputs == SeqsUpTo(BlockInputs, MaxBookmakers)
ParseArgsInputs ==
    [odds_labels : { <<>>, <<"odds_over", "odds_under">>, <<"1", "X", "2">> },
     target_bookmaker : {NoBookmaker, "pinnacle"},
     period : {"FullTime"}]
NoParseArgs == [odds_labels |-> <<>>, target_bookmaker |-> NoBookmaker, period |-> "FullTime"]

\* if not bookmaker_name or (target_bookmaker and bookmaker_name.lower() !=
\* target_bookmaker.lower()): continue
NotWanted(block, target_bookmaker) ==
    \/ block.title = ""
    \/ /\ target_bookmaker # NoBookmaker
       /\ LowerName(block.title) # LowerName(target_bookmaker)

\* a row is left out whenever the two numbers differ
IncompleteOnMismatch(block, odds_labels) == block.odds_value_blocks # Len(odds_labels)

\* if len(odds_value_blocks) < len(odds_labels): continue
Incomplete(block, odds_labels) == block.odds_value_blocks < Len(odds_labels)

\* extracted_odds_values: one normalised text per label, bookmaker_name and period
ExtractedOddsValues(block, args) ==
    [bookmaker_name |-> block.title,
     period |-> args.period,
     odds |-> [i \in 1..Len(args.odds_labels) |->
                  <<args.odds_labels[i], NormalizeOdds(OddsCellText(i), 1)>>]]

\* for block in bookmaker_blocks: ... odds_data.append(extracted_odds_values)
RECURSIVE ParseGenericOdds(_, _)
ParseGenericOdds(blocks, args) ==
    IF blocks = <<>> THEN <<>>
    ELSE LET block == Head(blocks)
             skipped == \/ NotWanted(block, args.target_bookmaker)
                        \/ args.odds_labels = <<>>
                        \/ Incomplete(block, args.odds_labels)
         IN  (IF skipped THEN <<>> ELSE <<ExtractedOddsValues(block, args)>>)
                 \o ParseGenericOdds(Tail(blocks), args)

\* one call of _parse_market_odds on the generic path
CallParseMarketOdds ==
    /\ generic_odds = NotParsed
    /\ generic_odds' = ParseGenericOdds(bookmaker_blocks, parse_args)
    /\ UNCHANGED <<coreVars, headerVars, oddsVars, marketVars, runVars, extractVars,
                   bookmaker_blocks, parse_args, proxyVars, scrollVars>>

GenericIdle ==
    /\ bookmaker_blocks = <<>>
    /\ parse_args = NoParseArgs
    /\ generic_odds = NotParsed


(***************************************************************************)
(* ProxyManager                                                            *)
(***************************************************************************)
\* get_current_proxy not called yet, and its value None
NotAsked == [server |-> "not asked"]
NoProxy == [server |-> "None"]

\* a proxy string of the command line, as proxy_entry.split() cuts it
ProxyEntryInputs ==
    { <<"http://proxy1.com:8080">>,
      <<"http://proxy2.com:8080", "user2", "pass2">>,
      <<"http://proxy3.com:8080", "user3">>,
      <<"socks5://proxy4.com:1080">> }
CliProxiesInputs == SeqsUpTo(ProxyEntryInputs, MaxProxies)

\* str.startswith("http")
StartsWithHttp(text) == text \in {"http://proxy1.com:8080", "http://proxy2.com:8080",
                                  "http://proxy3.com:8080"}

\* _parse_proxies: the entries of one part or of three parts whose first part starts
\* with http; the ValueError of any other entry is caught and the entry left out
RECURSIVE ParseProxies(_)
ParseProxies(cli_proxies) ==
    IF cli_proxies = <<>> THEN <<>>
    ELSE LET parts == Head(cli_proxies)
             proxy_config ==
                 IF Len(parts) = 1 /\ StartsWithHttp(parts[1])
                 THEN << [server |-> parts[1]] >>
                 ELSE IF Len(parts) = 3 /\ StartsWithHttp(parts[1])
                      THEN << [server |-> parts[1], username |-> parts[2],
                               password |-> parts[3]] >>
                      ELSE <<>>
         IN  proxy_config \o ParseProxies(Tail(cli_proxies))

\* get_current_proxy; list index i of the code is position i + 1
GetCurrentProxy(list, index) == IF list = <<>> THEN NoProxy ELSE list[index + 1]

\* a rotation that stays where it is
SameIndex(index, n) == index

\* (self.current_proxy_index + 1) % len(self.proxies)
NextIndex(index, n) == (index + 1) % n

\* rotate_proxy
RotateProxy ==
    /\ rotations < MaxRotations
    /\ rotations' = rotations + 1
    /\ IF proxies = <<>>
       THEN UNCHANGED <<current_proxy_index, current_proxy>>
       ELSE /\ current_proxy_index' = NextIndex(current_proxy_index, Len(proxies))
            /\ current_proxy' = GetCurrentProxy(proxies, current_proxy_index')
    /\ UNCHANGED <<coreVars, headerVars, oddsVars, marketVars, runVars, extractVars,
                   genericVars, proxies, scrollVars>>

\* a call of get_current_proxy
CallGetCurrentProxy ==
    /\ current_proxy' = GetCurrentProxy(proxies, current_proxy_index)
    /\ UNCHANGED <<coreVars, headerVars, oddsVars, marketVars, runVars, extractVars,
                   genericVars, proxies, current_proxy_index, rotations, scrollVars>>

ProxyIdle ==
    /\ proxies = <<>>
    /\ current_proxy_index = 0
    /\ rotations = 0
    /\ current_proxy = NotAsked

(***************************************************************************)
(* BrowserHelper.scroll_until_loaded                                       *)
(***************************************************************************)
\* the values document.body.scrollHeight can have
Heights == 0..MaxHeight

\* what one pass of the loop takes on the clock: the pause wait_for_timeout(
\* scroll_pause_time * 1000), or the pause and the time of the other calls
PassDurations == {1, 2}

ScrollArgsInputs ==
    [timeout : 0..MaxScrollTimeout, max_scroll_attempts : 1..MaxScrollAttempts,
     content_check_selector : BOOLEAN]
NoScrollArgs == [timeout |-> 0, max_scroll_attempts |-> 1, content_check_selector |-> FALSE]
NoScrollResult == "None"

\* end_time = time.time() + timeout; last_height = await page.evaluate(...);
\* scroll_attempts = 0
ScrollBegin ==
    /\ scrollPc = "start"
    /\ end_time' = clock + scroll_args.timeout
    /\ \/ \E h \in Heights :
            /\ last_height' = h
            /\ heights' = <<h>>
            /\ scroll_attempts' = 0
            /\ scrollPc' = "loop"
       \/ /\ scrollPc' = "raised"
          /\ UNCHANGED <<last_height, heights, scroll_attempts>>
    /\ UNCHANGED <<coreVars, headerVars, oddsVars, marketVars, runVars, extractVars,
                   genericVars, proxyVars, scroll_args, clock, scroll_result>>

\* a counter that is never reset
CountedAttemptsKept(attempts, new_height, height) ==
    IF new_height = height THEN attempts + 1 ELSE attempts

\* scroll_attempts after the comparison of new_height with last_height
CountedAttempts(attempts, new_height, height) ==
    IF new_height = height THEN attempts + 1 ELSE 0

\* one pass of `while time.time() < end_time`: scroll, pause, read new_height, the
\* optional selector check, the comparison with last_height
ScrollPass ==
    /\ scrollPc = "loop"
    /\ clock < end_time
    /\ \E d \in PassDurations : clock' = clock + d
    /\ \/ \E new_height \in Heights : \E elements \in BOOLEAN :
            /\ heights' = Append(heights, new_height)
            /\ IF scroll_args.content_check_selector /\ elements
               THEN /\ scrollPc' = "returned"
                    /\ scroll_result' = "True"
                    /\ UNCHANGED <<scroll_attempts, last_height>>
               ELSE /\ scroll_attempts' = CountedAttempts(scroll_attempts, new_height, last_height)
                    /\ IF new_height = last_height
                          /\ scroll_attempts' >= scroll_args.max_scroll_attempts
                       THEN /\ scrollPc' = "returned"
                            /\ scroll_result' = "False"
                            /\ UNCHANGED last_height
                       ELSE /\ last_height' = new_height
                            /\ UNCHANGED <<scrollPc, scroll_result>>
       \/ /\ scrollPc' = "raised"
          /\ UNCHANGED <<heights, scroll_attempts, last_height, scroll_result>>
    /\ UNCHANGED <<coreVars, headerVars, oddsVars, marketVars, runVars, extractVars,
                   genericVars, proxyVars, scroll_args, end_time>>

\* the loop condition is false: "Reached scrolling timeout ..."; return False
ScrollTimeout ==
    /\ scrollPc = "loop"
    /\ ~(clock < end_time)
    /\ scrollPc' = "returned"
    /\ scroll_result' = "False"
    /\ UNCHANGED <<coreVars, headerVars, oddsVars, marketVars, runVars, extractVars,
                   genericVars, proxyVars, scroll_args, clock, end_time, last_height,
                   scroll_attempts, heights>>

ScrollIdle ==
    /\ scrollPc = "idle"
    /\ scroll_args = NoScrollArgs
    /\ clock = 0
    /\ end_time = 0
    /\ last_height = 0
    /\ scroll_attempts = 0
    /\ heights = <<>>
    /\ scroll_result = NoScrollResult

(***************************************************************************)
(* Initial states and specifications                                       *)
(***************************************************************************)
LaterIdle == GenericIdle /\ ProxyIdle /\ ScrollIdle

NoSite == [pagination |-> <<>>, listing |-> <<>>, upcoming |-> <<>>]
NoCommand == [cmd |-> "none", league_valid |-> TRUE, max_pages |-> NoMaxPages]

\* The state in which rpc/fpc/gpc are the positions of retry_scrape, of the flow
\* and of extract_match_odds, nothing else having run yet.
Setup(rpc, att, cmd, st, fpc, pages, gpc, links, k, html) ==
    /\ attempt = att /\ retryPc = rpc /\ retryOutcome = NoExc
    /\ invocations = 0 /\ sleeps = 0
    /\ attemptErrors = [a \in Attempts |-> NoExc]
    /\ caught = {}
    /\ command = cmd
    /\ flowPc = fpc /\ flowExc = NoExc
    /\ site = st
    /\ pages_to_scrape = pages /\ pageIdx = 0 /\ tab = NoTab /\ all_links = <<>>
    /\ pageLog = <<>>
    /\ match_links = links
    /\ content = html /\ linkRuns = <<>>
    /\ concurrent_scraping_task = k
    /\ wk = [a \in Attempts |-> IF gpc = "gathering" /\ a = att
                                THEN [i \in 1..Len(links) |-> NewTask(links[i])] ELSE <<>>]
    /\ sem = [a \in Attempts |-> IF gpc = "gathering" /\ a = att THEN SemaphoreInit(k) ELSE 0]
    /\ failed_links = [a \in Attempts |-> <<>>]
    /\ emo = gpc /\ gatherExc = NoExc /\ odds_data = <<>>
    /\ openTabs = {MainPage}

\* nothing of the core has run
CoreIdle == Setup("idle", 1, NoCommand, NoSite, "idle", <<>>, "idle", <<>>, 0, <<>>)

\* nothing outside the core has run
OthersIdle == HeaderIdle /\ OddsIdle /\ MarketsIdle /\ RunIdle /\ ExtractIdle /\ LaterIdle

\* SpecSched: one call extract_match_odds(match_links, concurrent_scraping_task)
InitSched ==
    /\ OthersIdle
    /\ \E links \in SeqsUpTo(Links, MaxLinks) \ {<<>>} : \E k \in 1..MaxK :
           Setup("idle", 1, NoCommand, NoSite, "extract", <<>>, "gathering", links, k, <<>>)

NextSched == TaskStep \/ GatherReturn \/ GatherRaise

SpecSched == InitSched /\ [][NextSched]_vars

\* SpecMatches: one call scrape_matches(match_links, ...)
MatchLinksInputs == SeqsUpTo(Links, MaxMatchLinks) \ {<<>>}

InitMatches ==
    /\ OthersIdle
    /\ \E links \in MatchLinksInputs :
           Setup("idle", 1, NoCommand, NoSite, "m_goto", <<>>, "idle", links, 0, <<>>)

NextMatches == MatchesStep \/ TaskStep \/ GatherReturn \/ GatherRaise

SpecMatches == InitMatches /\ [][NextMatches]_vars

\* SpecLinks: extract_match_links run on a page
InitLinks ==
    /\ OthersIdle
    /\ \E html \in SeqsUpTo(RowInputs, MaxRows) :
           Setup("idle", 1, NoCommand, NoSite, "idle", <<>>, "idle", <<>>, 0, html)

NextLinks == RunExtractMatchLinks

SpecLinks == InitLinks /\ [][NextLinks]_vars

\* SpecCollect: one call _collect_match_links(base_url, pages_to_scrape)
ListingAt(n) == IF n % 2 = 1 THEN <<RowLeagueAndMatch>> ELSE <<RowOtherMatch, RowBareAndNoHref>>

InitCollect ==
    /\ OthersIdle
    /\ \E pages \in SeqsUpTo(1..MaxListingPages, MaxListingPages) :
           Setup("idle", 1, NoCommand,
                 [NoSite EXCEPT !.listing = [n \in 1..MaxListingPages |-> ListingAt(n)]],
                 IF pages = <<>> THEN "c_unique" ELSE "c_new_page", pages, "idle", <<>>, 0, <<>>)

NextCollect == CollectStep

SpecCollect == InitCollect /\ [][NextCollect]_vars

\* SpecGameType: one call of _determine_game_type on an event header
InitGameType ==
    /\ CoreIdle
    /\ event_data \in EventDataInputs
    /\ game_type = NoGameType
    /\ OddsIdle
    /\ MarketsIdle
    /\ RunIdle
    /\ ExtractIdle
    /\ LaterIdle

NextGameType == CallDetermineGameType

SpecGameType == InitGameType /\ [][NextGameType]_vars

\* SpecOdds: the normalisation of the text of one odds cell
InitOdds ==
    /\ CoreIdle
    /\ HeaderIdle
    /\ odds_text \in OddsTextInputs
    /\ odds_passes = <<>>
    /\ MarketsIdle
    /\ RunIdle
    /\ ExtractIdle
    /\ LaterIdle

NextOdds == NormalizeOddsValue

SpecOdds == InitOdds /\ [][NextOdds]_vars

\* SpecMarkets: register_all_markets, then scrape_markets for a sport and a list of markets
InitMarkets ==
    /\ CoreIdle
    /\ HeaderIdle
    /\ OddsIdle
    /\ RunIdle
    /\ ExtractIdle
    /\ LaterIdle
    /\ registry = <<>>
    /\ smPc = "start"
    /\ sport \in SportInputs
    /\ markets \in MarketsInputs
    /\ marketIdx = 1
    /\ market_data = <<>>

NextMarkets ==
    \/ RegisterAllMarkets
    \/ ScrapeMarketsBegin
    \/ ScrapeMarket
    \/ ScrapeMarketsReturn

SpecMarkets == InitMarkets /\ [][NextMarkets]_vars

\* Spec: retry_scrape(scraper.scrape_historic, ...) and retry_scrape(scraper.scrape_upcoming, ...)
\* as run_scraper calls them, with the browser started.
SiteTwoPages ==
    [pagination |-> <<1, 2, NotDigits>>,
     listing |-> << <<RowLeagueAndMatch>>, <<RowOtherMatch>> >>,
     upcoming |-> <<RowSameMatchTwice>>]
SiteEmpty ==
    [pagination |-> <<>>, listing |-> << <<RowNotAnEvent>> >>, upcoming |-> <<RowNotAnEvent>>]

SiteInputs == {SiteTwoPages, SiteEmpty}

CommandInputs ==
    { [cmd |-> "historic", league_valid |-> TRUE, max_pages |-> NoMaxPages],
      [cmd |-> "historic", league_valid |-> FALSE, max_pages |-> NoMaxPages],
      [cmd |-> "historic", league_valid |-> TRUE, max_pages |-> 1],
      [cmd |-> "upcoming", league_valid |-> TRUE, max_pages |-> NoMaxPages] }

Init ==
    /\ OthersIdle
    /\ \E cmd \in CommandInputs : \E st \in SiteInputs :
           Setup("loop", 0, cmd, st, "idle", <<>>, "idle", <<>>, 0, <<>>)

Next ==
    \/ RetryStep
    \/ FlowStep
    \/ CollectStep
    \/ TaskStep
    \/ GatherReturn
    \/ GatherRaise

Spec == Init /\ [][Next]_vars

\* SpecRun: one call of run_scraper, the flow under retry_scrape included
SiteOneMatch ==
    [pagination |-> <<1>>,
     listing |-> << <<RowLeagueAndMatch>> >>,
     upcoming |-> <<RowLeagueAndMatch>>]

InitRun ==
    /\ Setup("idle", 0, NoCommand, SiteOneMatch, "idle", <<>>, "idle", <<>>, 0, <<>>)
    /\ HeaderIdle
    /\ OddsIdle
    /\ MarketsIdle
    /\ runPc = "start"
    /\ run_args \in RunArgsInputs
    /\ browser = "none"
    /\ launches = 0
    /\ run_result = NoResult
    /\ playwright_stops = 0
    /\ ExtractIdle
    /\ LaterIdle

NextRun ==
    \/ RunStep
    \/ RetryStep
    \/ FlowStep
    \/ CollectStep
    \/ TaskStep
    \/ GatherReturn
    \/ GatherRaise

SpecRun == InitRun /\ [][NextRun]_vars

\* SpecRunFair: once start_playwright has been awaited, the event loop goes on
\* running what can run
SpecRunFair ==
    /\ SpecRun
    /\ WF_vars(RunDispatch \/ RunRetryDone \/ RunExcept \/ RunFinally)
    /\ WF_vars(RetryStep)
    /\ WF_vars(FlowStep)
    /\ WF_vars(CollectStep)
    /\ WF_vars(TaskStep)
    /\ WF_vars(GatherReturn \/ GatherRaise)

\* SpecExtract: one call of extract_market_odds on a market page whose sub-markets
\* are all collapsed
InitExtract ==
    /\ CoreIdle
    /\ HeaderIdle
    /\ OddsIdle
    /\ MarketsIdle
    /\ RunIdle
    /\ emPc = "start"
    /\ em_args \in ExtractArgsInputs
    /\ page_rows \in PageRowsInputs
    /\ sub_market_open = FALSE
    /\ market_odds = <<>>
    /\ histIdx = 0
    /\ em_error = "none"
    /\ em_result = <<>>
    /\ LaterIdle

NextExtract ==
    \/ ExtractNavigate
    \/ ExtractOpenSubMarket
    \/ ExtractSettle
    \/ ExtractContent
    \/ ExtractParse
    \/ ExtractHistory
    \/ ExtractHistoryDone
    \/ ExtractCloseSubMarket
    \/ ExtractExcept

SpecExtract == InitExtract /\ [][NextExtract]_vars

\* SpecPagination: one call of _get_pagination_info, for the texts of the pagination
\* links of a page and max_pages absent or positive
PaginationInputs == SeqsUpTo((1..MaxListingPages) \cup {NotDigits}, MaxListingPages)
MaxPagesInputs == {NoMaxPages} \cup (1..(MaxListingPages + 1))

InitPagination ==
    /\ OthersIdle
    /\ \E texts \in PaginationInputs : \E max_pages \in MaxPagesInputs :
           Setup("idle", 1, [NoCommand EXCEPT !.max_pages = max_pages],
                 [NoSite EXCEPT !.pagination = texts], "idle", <<>>, "idle", <<>>, 0, <<>>)

NextPagination == CallGetPaginationInfo

SpecPagination == InitPagination /\ [][NextPagination]_vars

\* SpecParse: one call of _parse_market_odds for a market of the generic path
InitParse ==
    /\ CoreIdle
    /\ HeaderIdle /\ OddsIdle /\ MarketsIdle /\ RunIdle /\ ExtractIdle
    /\ bookmaker_blocks \in BookmakerBlocksInputs
    /\ parse_args \in ParseArgsInputs
    /\ generic_odds = NotParsed
    /\ ProxyIdle /\ ScrollIdle

NextParse == CallParseMarketOdds

SpecParse == InitParse /\ [][NextParse]_vars

\* SpecProxy: ProxyManager(cli_proxies), then calls of rotate_proxy and
\* get_current_proxy in any order
InitProxy ==
    /\ CoreIdle
    /\ HeaderIdle /\ OddsIdle /\ MarketsIdle /\ RunIdle /\ ExtractIdle /\ GenericIdle
    /\ ScrollIdle
    /\ \E cli_proxies \in CliProxiesInputs : proxies = ParseProxies(cli_proxies)
    /\ current_proxy_index = 0
    /\ rotations = 0
    /\ current_proxy = NotAsked

NextProxy == RotateProxy \/ CallGetCurrentProxy

SpecProxy == InitProxy /\ [][NextProxy]_vars

\* SpecScroll: one call of scroll_until_loaded; SpecScrollFair: the call is not
\* suspended for ever (every awaited call of the page ends)
InitScroll ==
    /\ CoreIdle
    /\ HeaderIdle /\ OddsIdle /\ MarketsIdle /\ RunIdle /\ ExtractIdle
    /\ GenericIdle /\ ProxyIdle
    /\ scrollPc = "start"
    /\ scroll_args \in ScrollArgsInputs
    /\ clock = 0
    /\ end_time = 0
    /\ last_height = 0
    /\ scroll_attempts = 0
    /\ heights = <<>>
    /\ scroll_result = NoScrollResult

NextScroll == ScrollBegin \/ ScrollPass \/ ScrollTimeout

SpecScroll == InitScroll /\ [][NextScroll]_vars

SpecScrollFair == SpecScroll /\ WF_vars(NextScroll)

(***************************************************************************)
(* Properties of extract_match_odds (SpecSched)                            *)
(***************************************************************************)
NoDuplicates(l) == \A i, j \in 1..Len(l) : i # j => l[i] # l[j]

\* the worker pages of the current call that are opened and not yet closed
OpenWorkerTabs == {t \in openTabs : t[1] = "worker" /\ t[2] = attempt}

\* C1: in every interleaving of the tasks of extract_match_odds, the number of
\* worker pages opened and not yet closed never exceeds concurrent_scraping_task.
C1_OpenPagesBounded ==
    emo # "idle" => Cardinality(OpenWorkerTabs) <= concurrent_scraping_task

\* The bound is met while another task waits for the semaphore.
C1_Witness ==
    /\ emo = "gathering"
    /\ Cardinality(OpenWorkerTabs) = concurrent_scraping_task
    /\ \E i \in Tasks(attempt) : wk[attempt][i].pc = "start"

\* C2: when every task has ended and extract_match_odds returns, the number of
\* records returned plus the number of links in failed_links is the number of links.
C2_RecordsPlusFailedIsN ==
    emo = "returned" => Len(odds_data) + Len(failed_links[attempt]) = Len(match_links)

\* C3: a task in which opening the page, scraping the match or closing the page
\* throws is caught: extract_match_odds does not raise, the link of the task is in
\* failed_links, the task gives no record, and the records of the other tasks are
\* returned.
C3_WorkerFailureIsolated ==
    /\ emo # "raised"
    /\ \A i \in Tasks(attempt) :
         (wk[attempt][i].pc = "done" /\ wk[attempt][i].threw) =>
            /\ wk[attempt][i].link \in Range(failed_links[attempt])
            /\ wk[attempt][i].ret = None
    /\ emo = "returned" =>
         \A i \in Tasks(attempt) :
            wk[attempt][i].ret # None => wk[attempt][i].ret \in Range(odds_data)

\* C4: every worker page is the tab of one task only, close() is called on it at
\* most once, and when extract_match_odds returns it has been called exactly once
\* on every page opened, whatever the scrape of the task gave.
C4_PagesClosedOnce ==
    /\ \A i, j \in Tasks(attempt) :
         (i # j /\ wk[attempt][i].tab # NoTab) => wk[attempt][i].tab # wk[attempt][j].tab
    /\ \A i \in Tasks(attempt) : wk[attempt][i].closes <= 1
    /\ emo = "returned" =>
         \A i \in Tasks(attempt) :
            wk[attempt][i].tab # NoTab =>
                wk[attempt][i].closes = 1 /\ wk[attempt][i].tab \notin openTabs

\* extract_match_odds has returned; one task had its scrape raise, another one gave
\* a record, and both had opened a page.
C4_Witness ==
    /\ emo = "returned"
    /\ \E i, j \in Tasks(attempt) :
         /\ wk[attempt][i].tab # NoTab /\ wk[attempt][j].tab # NoTab
         /\ wk[attempt][i].threw /\ wk[attempt][i].link \in Range(failed_links[attempt])
         /\ ~wk[attempt][j].threw /\ wk[attempt][j].ret # None

(***************************************************************************)
(* Properties of _collect_match_links (SpecCollect)                        *)
(***************************************************************************)
\* the pages of pages_to_scrape (by position) on which no step failed
PagesNotFailed == {j \in 1..Len(pageLog) : ~pageLog[j].failed}

LinksOfPagesNotFailed ==
    UNION { MatchLinkSet(PageContent(pages_to_scrape[j])) : j \in PagesNotFailed }

\* C8: whatever the pages on which opening the tab, navigating, the jitter wait or
\* the link collection fails, _collect_match_links does not raise (only a close()
\* that fails in a cleanup step leaves it) and returns, without duplicates, exactly
\* the links collected on the pages that did not fail.
C8_UnionOfPagesNotFailed ==
    /\ flowPc = "raised" => pageLog[Len(pageLog)].close_raised
    /\ flowPc = "collected" =>
         /\ Len(pageLog) = Len(pages_to_scrape)
         /\ NoDuplicates(match_links)
         /\ Range(match_links) = LinksOfPagesNotFailed

\* Three pages, the second of which fails after its tab was opened: the links of
\* the first and of the third are returned.
C8_Witness ==
    /\ flowPc = "collected"
    /\ pages_to_scrape = <<1, 2, 3>>
    /\ PagesNotFailed = {1, 3}
    /\ pageLog[2].opened # NoTab
    /\ match_links # <<>>

\* the number of close() calls made on a tab
ListingCloses(t) == Cardinality({j \in 1..Len(pageLog) : pageLog[j].closed = t})

\* C9: the cleanup step of a page closes the tab opened for that page and no other
\* tab, also when opening the tab of the page failed; no tab is closed twice.
C9_CleanupClosesOwnTab ==
    /\ \A j \in 1..Len(pageLog) :
         pageLog[j].closed # NoTab => pageLog[j].closed = pageLog[j].opened
    /\ \A j \in 1..Len(pageLog) :
         pageLog[j].opened # NoTab => ListingCloses(pageLog[j].opened) <= 1
    /\ flowPc \in {"collected", "c_unique"} =>
         \A j \in 1..Len(pageLog) :
            pageLog[j].opened # NoTab => ListingCloses(pageLog[j].opened) = 1

(***************************************************************************)
(* Properties of extract_match_links (SpecLinks)                           *)
(***************************************************************************)
\* C10: extract_match_links never returns a link twice, and two runs that read
\* the same page content return the same set of links.
C10_NoDuplicateLinks ==
    /\ \A r \in 1..Len(linkRuns) : NoDuplicates(linkRuns[r].links)
    /\ \A r, q \in 1..Len(linkRuns) :
         (linkRuns[r].read = "ok" /\ linkRuns[q].read = "ok") =>
            Range(linkRuns[r].links) = Range(linkRuns[q].links)

\* Two runs on a page that shows the same match link in two anchors and another
\* link returned two links each.
C10_Witness ==
    /\ Len(linkRuns) = 2
    /\ linkRuns[1].read = "ok" /\ linkRuns[2].read = "ok"
    /\ Len(linkRuns[1].links) = 2
    /\ RowSameMatchTwice \in Range(content)

(***************************************************************************)
(* Properties of retry_scrape around the flows (Spec)                      *)
(***************************************************************************)
\* the errors of the model whose message contains a member of TRANSIENT_ERRORS,
\* and those whose message contains none ("navigation timeout" is not
\* "Navigation timeout")
TransientInputs == {PwTimeout, PwTargetClosed}
NonTransientInputs == {PwOther, OtherExc, ValueError}

\* C5: when every invocation of the wrapped flow ended with a transient error,
\* retry_scrape has invoked the flow exactly MAX_RETRIES times and has returned
\* None; it has not raised.
C5_TransientOnEveryAttempt ==
    (/\ retryPc = "done"
     /\ \A a \in 1..invocations : attemptErrors[a] \in TransientInputs)
        => /\ invocations = MAX_RETRIES
           /\ retryOutcome = ReturnedNone

\* retry_scrape is over after MAX_RETRIES invocations that all timed out.
C5_Witness ==
    /\ retryPc = "done"
    /\ retryOutcome = ReturnedNone
    /\ invocations = MAX_RETRIES
    /\ \A a \in Attempts : attemptErrors[a] = PwTimeout

\* C6: an error of the flow that matches no transient signature is raised by
\* retry_scrape on the attempt where it occurs: no wait is made for it and the flow
\* is not invoked again; on the first attempt the flow has been invoked once.
C6_NonTransientRethrown ==
    \A a \in Attempts :
        attemptErrors[a] \in NonTransientInputs =>
            /\ retryPc = "done"
            /\ retryOutcome = Raised(attemptErrors[a])
            /\ attempt = a
            /\ invocations = a
            /\ sleeps = a - 1

\* The first invocation fails with an error that is not transient and retry_scrape
\* raises it after one invocation and no wait.
C6_Witness ==
    /\ retryPc = "done"
    /\ attemptErrors[1] \in NonTransientInputs
    /\ retryOutcome = Raised(attemptErrors[1])
    /\ invocations = 1
    /\ sleeps = 0

\* the locals of the flow and of the functions it calls, as a new call finds them
FlowFromScratch ==
    /\ flowExc = NoExc
    /\ pages_to_scrape = <<>> /\ pageIdx = 0 /\ tab = NoTab /\ all_links = <<>>
    /\ pageLog = <<>> /\ match_links = <<>>
    /\ emo = "idle" /\ gatherExc = NoExc /\ odds_data = <<>>
    /\ failed_links[attempt] = <<>>
    /\ caught = {}

\* C7 as stated: a transient failure raised anywhere inside the flow, the per-link
\* extraction included, restarts the flow: an invocation in which a transient
\* failure was raised never ends with retry_scrape returning its result.
C7_AnyTransientFailureRestarts ==
    (retryPc = "done" /\ retryOutcome.kind = "return") => caught = {}

\* C7 amended: a transient failure that leaves the flow on an attempt before the
\* last makes retry_scrape wait and invoke the flow again, which starts from
\* scratch; the flow is invoked again only after such a failure.  (A transient
\* failure handled inside a worker or inside the processing of a listing page does
\* not leave the flow.)
C7_PropagatedTransientRestarts ==
    /\ \A a \in Attempts :
         (attemptErrors[a] \in TransientInputs /\ a < MAX_RETRIES) =>
            \/ attempt > a
            \/ attempt = a /\ retryPc \in {"sleeping", "loop"}
    /\ \A a \in Attempts : a < attempt => attemptErrors[a] \in TransientInputs
    /\ (retryPc = "call" /\ flowPc = "url") => FlowFromScratch

\* The first invocation ended with the "Target closed" error of a close() and the
\* second invocation is at the extraction again.
C7_Witness ==
    /\ attempt = 2
    /\ attemptErrors[1] = PwTargetClosed
    /\ retryPc = "call"
    /\ emo = "gathering"

(***************************************************************************)
(* Properties of _determine_game_type (SpecGameType)                       *)
(***************************************************************************)
GameTypes == {"regular_season", "playoffs", "preseason", "exhibition", "qualification"}

IsMlbLink(link) == Contains(LowerOrEmpty(link), MlbMarker)

\* C11 as stated: with tournament_stage = "World Series" the result is "playoffs",
\* whatever the URL and the tournament name.
C11_WorldSeriesStageIsPlayoffs ==
    (game_type # NoGameType /\ event_data.tournamentStage = WorldSeries)
        => game_type = "playoffs"

\* C11 amended: for a URL that contains "baseball/usa/mlb" (in any case of the
\* letters), tournament_stage = "World Series" gives "playoffs" whatever the rest of
\* the URL, the tournament name and the season type are.
C11_WorldSeriesStageIsPlayoffsForMlb ==
    (/\ game_type # NoGameType
     /\ event_data.tournamentStage = WorldSeries
     /\ IsMlbLink(event_data.match_link))
        => game_type = "playoffs"

\* An MLB match whose tournament name says Spring Training and whose season type
\* says preseason is classified by its stage.
C11_Witness ==
    /\ game_type = "playoffs"
    /\ event_data.tournamentStage = WorldSeries
    /\ event_data.match_link = UrlMlbUpper
    /\ event_data.tournamentName = <<"Spring", " ", "Training">>
    /\ event_data.seasonType = <<"Pre", "season">>

\* every keyword the function looks for
AllKeywords ==
    StagePlayoffTerms \cup StagePreseasonTerms \cup AllStarTerms \cup SeasonPlayoffTerms
        \cup SeasonPreseasonTerms \cup {NameSpringTraining} \cup NamePlayoffTerms
        \cup UrlPlayoffTerms \cup {UrlSpringTraining, UrlAllStar}
        \cup UNION {GameTypePatterns[k].patterns : k \in 1..Len(GameTypePatterns)}

NoKeywordAnywhere ==
    \A text \in {event_data.match_link, event_data.tournamentName, event_data.seasonType,
                 event_data.tournamentStage} :
        ~AnyIn(AllKeywords, LowerOrEmpty(text))

\* C12: the result is one of the five game types, never None, whichever of the four
\* inputs are absent; it is regular_season when no keyword occurs in any input.
C12_GameTypeAlwaysSet ==
    game_type # NoGameType =>
        /\ game_type \in GameTypes
        /\ NoKeywordAnywhere => game_type = "regular_season"

\* A match with all four inputs present and no keyword in them, and one with all
\* four absent, are regular season games.
C12_Witness ==
    /\ game_type = "regular_season"
    /\ NoKeywordAnywhere
    /\ \/ /\ event_data.match_link = UrlMlbSeasonRegular
          /\ event_data.tournamentName = <<"MLB">>
          /\ event_data.seasonType = <<"Regular", " ", "Season">>
          /\ event_data.tournamentStage = <<"Regular", " ", "Season">>
       \/ event_data = NoEventData

NoStageNoSeasonType == Falsy(event_data.tournamentStage) /\ Falsy(event_data.seasonType)

\* C13 as stated: without stage and season type, the tournament name
\* "MLB All-Star Game" gives "exhibition".
C13_AllStarGameIsExhibition ==
    (/\ game_type # NoGameType
     /\ NoStageNoSeasonType
     /\ event_data.tournamentName = MlbAllStarGame)
        => game_type = "exhibition"

\* C13 amended: it does so for every URL that contains "baseball/usa/mlb" and for
\* every other URL in which no playoffs or preseason pattern of the general pass
\* occurs.
C13_AllStarGameIsExhibitionByName ==
    (/\ game_type # NoGameType
     /\ NoStageNoSeasonType
     /\ event_data.tournamentName = MlbAllStarGame
     /\ \/ IsMlbLink(event_data.match_link)
        \/ ~AnyIn(GameTypePatterns[1].patterns \cup GameTypePatterns[2].patterns,
                  LowerOrEmpty(event_data.match_link)))
        => game_type = "exhibition"

\* The All-Star Game under an MLB URL whose season part says world-series.
C13_Witness ==
    /\ game_type = "exhibition"
    /\ event_data.tournamentName = MlbAllStarGame
    /\ event_data.match_link = UrlMlbSeasonPlayoffs
    /\ NoStageNoSeasonType

(***************************************************************************)
(* Properties of the odds normalisation (SpecOdds)                         *)
(***************************************************************************)
\* \d+\.\d+ and nothing else
IsDecimal(t) ==
    /\ Len(t) >= 3
    /\ \E dot \in 2..(Len(t) - 1) :
         /\ t[dot] = "."
         /\ \A j \in 1..Len(t) : j # dot => t[j] \in Digits

Half(t) == SubSeq(t, 1, Len(t) \div 2)

\* a decimal written twice in a row
IsDoubledDecimal(t) == Len(t) % 2 = 0 /\ IsDecimal(Half(t)) /\ t = Half(t) \o Half(t)

OddsDoubledOrSingle ==
    /\ odds_passes # <<>>
    /\ IsDoubledDecimal(odds_text) => odds_passes[1] = Half(odds_text)
    /\ IsDecimal(odds_text) => odds_passes[1] = odds_text

\* C14 as stated: a doubled decimal becomes one copy, a single decimal is left
\* unchanged, and a second pass changes nothing, whatever the text.
C14_NormalizationIdempotent ==
    odds_passes # <<>> =>
        /\ OddsDoubledOrSingle
        /\ Len(odds_passes) = 2 => odds_passes[2] = odds_passes[1]

\* C14 amended: a doubled decimal becomes one copy and a single decimal is left
\* unchanged; for these texts a second pass changes nothing.
C14_NormalizationOfDoubledAndSingle ==
    odds_passes # <<>> =>
        /\ OddsDoubledOrSingle
        /\ (Len(odds_passes) = 2 /\ (IsDoubledDecimal(odds_text) \/ IsDecimal(odds_text)))
              => odds_passes[2] = odds_passes[1]

\* "1.951.95" has gone through two passes and is "1.95".
C14_Witness ==
    /\ odds_text = <<"1", ".", "9", "5", "1", ".", "9", "5">>
    /\ odds_passes = << <<"1", ".", "9", "5">>, <<"1", ".", "9", "5">> >>

\* C15: after register_all_markets every (sport, market key) of the registry has a
\* descriptor whose list of outcome labels is not empty.
C15_RegisteredLabelsNonEmpty ==
    smPc \notin {"idle", "start"} =>
        \A sp \in DOMAIN registry : \A key \in DOMAIN registry[sp] :
            registry[sp][key].odds_labels # <<>>

C15_Witness ==
    /\ smPc = "registered"
    /\ DOMAIN registry = {"football", "tennis", "basketball"}
    /\ <<"over_under", "_", "2", "_", "5">> \in DOMAIN registry["football"]
    /\ registry["football"][<<"over_under", "_", "2", "_", "5">>].specific_market
            = <<"Over/Under +", "2", ".", "5">>
    /\ registry["tennis"][<<"correct_score", "_", "2", "_", "1">>].odds_labels
            = <<"correct_score">>

\* the requested markets registered for the sport
RequestedRegistered ==
    {i \in 1..Len(markets) : markets[i] \in DOMAIN GetMarketMapping(registry, sport)}
RequestedUnregistered == (1..Len(markets)) \ RequestedRegistered

\* C16: scrape_markets returns, whatever the list; a requested key that is not
\* registered for the sport has no entry in the result, and every requested key that is
\* registered has one, before and after it in the list.
C16_UnregisteredMarketSkipped ==
    /\ smPc = "loop" => marketIdx \in 1..(Len(markets) + 1)
    /\ smPc = "returned" =>
          DOMAIN market_data = {MarketDataKey(markets[i]) : i \in RequestedRegistered}

C16_Witness ==
    /\ smPc = "returned"
    /\ Len(markets) = 3
    /\ RequestedUnregistered = {2}
    /\ markets[1] # markets[3]
    /\ Cardinality(DOMAIN market_data) = 2

\* the calls the error taxonomy names fatal: a required argument is missing, the command
\* is unknown, or the sport/league combination is invalid
MissingOrUnknown == ArgumentError(run_args) # NoExc
FatalConfiguration == MissingOrUnknown \/ ~run_args.league_valid

\* C17: a fatal configuration error is never retried and run_scraper ends by raising,
\* not by returning a value.
C17_FatalErrorRaisesUnretried ==
    (runPc = "done" /\ FatalConfiguration) =>
        /\ invocations <= 1
        /\ sleeps = 0
        /\ run_result.kind = "raise"

\* C18: with a missing required argument or an unknown command run_scraper starts no
\* browser session and navigates no page.
C18_FatalErrorBeforeBrowser ==
    (runPc # "idle" /\ MissingOrUnknown) =>
        /\ launches = 0
        /\ browser = "none"
        /\ invocations = 0

\* C19: when extract_market_odds has returned, a sub-market it opened is closed again,
\* whether it returns quotes or the empty list of its except clause.
C19_SubMarketClosedOnReturn ==
    emPc = "returned" => ~sub_market_open

\* C20: when the rows are parsed and collecting the history of a bookmaker fails,
\* extract_market_odds still returns every parsed quote; only the quote whose history
\* failed is without history.
C20_HistoryFailureKeepsQuotes ==
    (emPc = "returned" /\ em_args.scrape_odds_history /\ histIdx >= 1
        /\ em_error \in {"none", "history"}) =>
        /\ Len(em_result) = Len(ParseMarketOdds(page_rows, em_args.target_bookmaker))
        /\ \A i \in 1..Len(em_result) :
              em_result[i].bookmaker_name = market_odds[i].bookmaker_name

\* the rows of the wanted bookmakers, for a market that has labels
WantedBlocks ==
    {i \in 1..Len(bookmaker_blocks) :
        /\ ~NotWanted(bookmaker_blocks[i], parse_args.target_bookmaker)
        /\ parse_args.odds_labels # <<>>}
BlocksWithFewer ==
    {i \in WantedBlocks : bookmaker_blocks[i].odds_value_blocks < Len(parse_args.odds_labels)}
BlocksWithMore ==
    {i \in WantedBlocks : bookmaker_blocks[i].odds_value_blocks > Len(parse_args.odds_labels)}
QuoteTitles == [i \in 1..Len(generic_odds) |-> generic_odds[i].bookmaker_name]
TitlesOf(S) ==
    LET kept(block) == \E i \in S : bookmaker_blocks[i] = block
    IN  [i \in 1..Len(SelectSeq(bookmaker_blocks, kept)) |->
            SelectSeq(bookmaker_blocks, kept)[i].title]

\* C21 as stated: the rows whose number of odds values differs from the number of
\* labels give no quote, the other wanted rows give one each, in order.
C21_MismatchedRowSkipped ==
    generic_odds # NotParsed =>
        QuoteTitles = TitlesOf(WantedBlocks \ (BlocksWithFewer \cup BlocksWithMore))

\* C21: the rows with fewer odds values than labels give no quote; every other wanted
\* row, those with more values included, gives one quote with one value per label, in
\* order.
C21_RowWithFewerValuesSkipped ==
    generic_odds # NotParsed =>
        /\ QuoteTitles = TitlesOf(WantedBlocks \ BlocksWithFewer)
        /\ \A i \in 1..Len(generic_odds) :
              Len(generic_odds[i].odds) = Len(parse_args.odds_labels)

C21_Witness ==
    /\ generic_odds # NotParsed
    /\ Len(bookmaker_blocks) = 2
    /\ BlocksWithFewer = {1}
    /\ WantedBlocks = {1, 2}
    /\ Len(generic_odds) = 1
    /\ generic_odds[1].odds[1] = <<"odds_over", <<"1", ".", "5">> >>

\* the page numbers among the texts of the pagination links, in page order
Discovered == SelectSeq(site.pagination, LAMBDA t : t # NotDigits)
Count(seq, v) == Cardinality({i \in 1..Len(seq) : seq[i] = v})

\* C22: without a cap _get_pagination_info returns the discovered page numbers; with a
\* cap m it returns, in ascending order, m of them (all if there are fewer), none of
\* those left out being smaller than one returned; with no page number it returns [1].
C22_PaginationInfo ==
    pages_to_scrape # <<>> =>
        IF Discovered = <<>> THEN pages_to_scrape = <<1>>
        ELSE IF command.max_pages = NoMaxPages THEN pages_to_scrape = Discovered
        ELSE /\ Len(pages_to_scrape) = Min({command.max_pages, Len(Discovered)})
             /\ \A i, j \in 1..Len(pages_to_scrape) :
                   i < j => pages_to_scrape[i] <= pages_to_scrape[j]
             /\ \A v \in 1..MaxListingPages :
                   /\ Count(pages_to_scrape, v) <= Count(Discovered, v)
                   /\ Count(pages_to_scrape, v) < Count(Discovered, v) =>
                         \A i \in 1..Len(pages_to_scrape) : pages_to_scrape[i] <= v

C22_Witness ==
    /\ site.pagination = <<3, NotDigits, 1>>
    /\ command.max_pages = 1
    /\ pages_to_scrape = <<1>>

C24_WaitsOnlyBeforeRetry ==
    (retryPc = "done" /\ invocations >= 1) => sleeps = invocations - 1

\* C25: in the flow scrape_matches the number of worker pages open at the same time
\* stays within the concurrency bound of the scraper, SCRAPE_CONCURRENCY_TASKS,
\* however many links are supplied.
C25_OpenPagesBoundedForAnyLinks ==
    emo # "idle" => Cardinality(OpenWorkerTabs) <= SCRAPE_CONCURRENCY_TASKS

\* C26: within one attempt of the flow scrape_matches no two workers are handed the
\* same match link.
C26_EachLinkHandedToOneWorker ==
    emo = "gathering" =>
        \A i \in Tasks(attempt) : \A j \in Tasks(attempt) :
            i # j => wk[attempt][i].link # wk[attempt][j].link

\* C27: when scrape_markets has returned, the entry of every requested market that is
\* registered for the sport is a quote list returned by extract_market_odds, run
\* with the options scrape_markets was given: it is not the None stored when the
\* call of the market's method has failed.
C27_EntryIsExtractionResult ==
    smPc = "returned" =>
        \A i \in RequestedRegistered :
            market_data[MarketDataKey(markets[i])] # NoneValue

\* the number of checks at the end of `heights` on which the height did not grow
RECURSIVE NoGrowthRun(_)
NoGrowthRun(hs) ==
    IF Len(hs) < 2 THEN 0
    ELSE IF hs[Len(hs)] > hs[Len(hs) - 1] THEN 0
         ELSE 1 + NoGrowthRun(SubSeq(hs, 1, Len(hs) - 1))

\* C28: while scroll_until_loaded is in its loop and the timeout has not elapsed,
\* the height has failed to grow on fewer than max_scroll_attempts consecutive
\* checks, and the no-growth counter is that number of checks and is at most
\* max_scroll_attempts.
C28_StopsAfterChecksWithoutGrowth ==
    (scrollPc = "loop" /\ clock < end_time) =>
        /\ NoGrowthRun(heights) < scroll_args.max_scroll_attempts
        /\ scroll_attempts = NoGrowthRun(heights)
        /\ scroll_attempts <= scroll_args.max_scroll_attempts

\* the number of checks at the end of `heights` on which the height was the same
\* as on the check before
RECURSIVE UnchangedRun(_)
UnchangedRun(hs) ==
    IF Len(hs) < 2 THEN 0
    ELSE IF hs[Len(hs)] # hs[Len(hs) - 1] THEN 0
         ELSE 1 + UnchangedRun(SubSeq(hs, 1, Len(hs) - 1))

ScrollCounterInvariant ==
    /\ scroll_attempts <= scroll_args.max_scroll_attempts
    /\ Len(heights) <= scroll_args.timeout + 1
    /\ scrollPc = "loop" =>
          /\ scroll_attempts = UnchangedRun(heights)
          /\ UnchangedRun(heights) < scroll_args.max_scroll_attempts
    /\ (scrollPc = "returned" /\ scroll_result = "False" /\ clock < end_time) =>
          UnchangedRun(heights) = scroll_args.max_scroll_attempts

\* C28 (amended): scroll_until_loaded ends (it returns, or an error of the page
\* ends it); while it is in its loop the height has been unchanged on fewer than
\* max_scroll_attempts consecutive checks, the counter is the number of those
\* checks (a check on which the height changed resets it to zero) and never
\* exceeds max_scroll_attempts; no check is made after the timeout has elapsed; a
\* return of False before the timeout comes after max_scroll_attempts unchanged checks.
C28_ScrollStopsWhenHeightUnchanged ==
    /\ []ScrollCounterInvariant
    /\ <>(scrollPc \in {"returned", "raised"})

\* The height shrinks, which resets the counter, then stays the same on
\* max_scroll_attempts = 1 check and the function returns False before the timeout.
C28_Witness ==
    /\ scrollPc = "returned"
    /\ scroll_result = "False"
    /\ clock < end_time
    /\ Len(heights) = 3
    /\ heights[2] < heights[1]
    /\ heights[3] = heights[2]
    /\ scroll_attempts = scroll_args.max_scroll_attempts

StopPlaywrightInvariant ==
    /\ playwright_stops <= 1
    /\ playwright_stops = 1 <=> runPc = "done"
    /\ playwright_stops = 1 => (retryPc \in {"idle", "done"} /\ emo # "gathering")

\* C29: a call of run_scraper that is past start_playwright in its try block ends,
\* and when it has ended stop_playwright has been called exactly once; it is never called before
\* retry_scrape and the last flow attempt are over, whether the call ends with
\* records, with the failure sentinel, after a non-transient error or after a
\* configuration error.
C29_StopPlaywrightExactlyOnce ==
    /\ []StopPlaywrightInvariant
    /\ (runPc \in {"dispatch", "except"}) ~> (runPc = "done")

\* Every attempt has failed with a transient error; the browser is stopped once.
C29_Witness ==
    /\ runPc = "done"
    /\ playwright_stops = 1
    /\ invocations = MAX_RETRIES
    /\ retryOutcome = ReturnedNone

\* C30: when the call of extract_match_odds of an attempt has ended, by returning or
\* by raising, every worker of the attempt has finished and no worker page of the
\* attempt is open.
C30_NoWorkerOutlivesAttempt ==
    emo \in {"returned", "raised"} =>
        /\ \A i \in Tasks(attempt) : wk[attempt][i].pc = "done"
        /\ OpenWorkerTabs = {}

====
